---- MODULE Spec2Model ----
(***************************************************************************)
(* Log-to-statistics pipeline of go-claude-costs: the JSONL parser         *)
(* (internal/parser), the data model (internal/models) and the statistics  *)
(* engine (internal/calculator).                                           *)
(*                                                                         *)
(* Units.  Money is an integer number of 1e-10 USD: a rate of r USD per    *)
(* million tokens is the integer r * 10^4 per token, so that the code's    *)
(* float64(tokens) * rate / 1_000_000 is tokens * rate exactly (the parse  *)
(* adds money exactly; float64 rounding is modelled, with a shortened      *)
(* mantissa, where the order or the form of the arithmetic is at stake: in *)
(* calculateTotalsOrdered, in the cost bookkeeping of SpecFold and in the  *)
(* statistics engine).                                                     *)
(* Instants and durations are whole seconds;                               *)
(* day keys ("2006-01-02") are local day numbers.  The zero time.Time is   *)
(* ZeroTime, earlier than every instant a log line can carry past the      *)
(* cutoff.                                                                 *)
(***************************************************************************)
EXTENDS Integers, Sequences, FiniteSets, TLC

VARIABLES
    analysis,          \* *models.CostAnalysis threaded through ParseAll
    pc,                \* position inside ParseAll / parseFile
    uniqueFiles,       \* the de-duplicated glob result, in glob order
    fileIdx,           \* index into uniqueFiles of the file being parsed
    allEntries,        \* parseFile's slice of stored entries
    entriesByUUID,     \* parseFile's uuid -> index into allEntries
    entryIdx,          \* loop index of parseFile's processing loop
    projectNameCache,  \* Parser.projectNameCache
    result,            \* what ParseAll returned: "none", "analysis", "error"
    input,             \* history: per opened file, the raw lines read so far
                       \* (for a file given up: the number of entries dropped)
    linesRead,         \* history: number of lines read so far, over all files
    probe              \* input/output of a single function application

vars == <<analysis, pc, uniqueFiles, fileIdx, allEntries, entriesByUUID,
          entryIdx, projectNameCache, result, input, linesRead, probe>>

\* ---------------------------------------------------------------- bounds

MaxTotalLines == 3

\* mantissa length of the float model (53 in float64)
FloatBits == 5

\* binary digits after the point that the float model resolves
FracBits == 8

\* longest sample set handed to the statistics engine
MaxSamples == 3

\* most calls made on one Statistics object
MaxCalls == 2
MaxFolds == 3

\* ------------------------------------------------------------ time model

SecondsPerHour == 3600

SecondsPerDay == 86400

ZeroTime == 0

\* time.Now() at the start of ParseAll
Now == 262600

\* Parser.daysToAnalyze
daysToAnalyze == 1

\* offset of the local zone used by t.Local()
LocalOffset == 3600

\* 5*time.Minute
FiveMinutes == 300

cutoffTime == Now - daysToAnalyze * SecondsPerDay

IsZero(t) == t = ZeroTime

\* timestamp.Hour() of a local time
Hour(t) == ((t + LocalOffset) \div SecondsPerHour) % 24

\* timestamp.Format("2006-01-02") of a local time, as a day number
DayKey(t) == (t + LocalOffset) \div SecondsPerDay

\* A timestamp string: form "empty" is "", form "bad" is text that is not
\* RFC3339, form "Z" is a wall-clock reading with a Z suffix, form "offset"
\* one with an explicit numeric offset of off seconds.
TsEmpty == [form |-> "empty", wall |-> 0, off |-> 0]
TsBad == [form |-> "bad", wall |-> 0, off |-> 0]
TsZ(w) == [form |-> "Z", wall |-> w, off |-> 0]
TsOff(w, o) == [form |-> "offset", wall |-> w, off |-> o]

\* parseTimestamp: [err, t]
parseTimestamp(timestamp) ==
    IF timestamp.form = "empty" THEN [err |-> TRUE, t |-> ZeroTime]
    ELSE LET parseStr == IF timestamp.form = "Z"
                         THEN [form |-> "offset", wall |-> timestamp.wall, off |-> 0]
                         ELSE timestamp
         IN IF parseStr.form # "offset" THEN [err |-> TRUE, t |-> ZeroTime]
            ELSE [err |-> FALSE, t |-> parseStr.wall - parseStr.off]

\* ------------------------------------------------------------- pricing

PricingTier(i, o, w, r) == [Input |-> i, Output |-> o, CacheWrite |-> w, CacheRead |-> r]

ModelPricing ==
    ("claude-opus-4-20250514" :> PricingTier(150000, 750000, 187500, 15000)) @@
    ("claude-sonnet-4-20250514" :> PricingTier(30000, 150000, 37500, 3000)) @@
    ("claude-3-5-sonnet-20241022" :> PricingTier(30000, 150000, 37500, 3000)) @@
    ("claude-3-5-haiku-20241022" :> PricingTier(8000, 40000, 10000, 800)) @@
    ("claude-3-5-sonnet-20240620" :> PricingTier(30000, 150000, 37500, 3000)) @@
    ("claude-3-opus-20240229" :> PricingTier(150000, 750000, 187500, 15000)) @@
    ("claude-3-sonnet-20240229" :> PricingTier(30000, 150000, 37500, 3000)) @@
    ("claude-3-haiku-20240307" :> PricingTier(2500, 12500, 3125, 250))

DefaultPricing == PricingTier(30000, 150000, 37500, 3000)

\* ---------------------------------------------------------- entry model

\* *models.Usage; isNil is the nil pointer
NilUsage ==
    [isNil |-> TRUE, InputTokens |-> 0, OutputTokens |-> 0,
     CacheCreationInputTokens |-> 0, CacheReadInputTokens |-> 0]

Usage(i, o, cw, cr) ==
    [isNil |-> FALSE, InputTokens |-> i, OutputTokens |-> o,
     CacheCreationInputTokens |-> cw, CacheReadInputTokens |-> cr]

\* MessageContent.Content (interface{}): shape "string" is a JSON string,
\* "list" a JSON array whose elements are in items, "other" anything else.
ContentString == [shape |-> "string", items |-> <<>>]
ContentOther == [shape |-> "other", items |-> <<>>]
ContentList(items) == [shape |-> "list", items |-> items]

\* One element of a content array.  isMap: it is a JSON object; type: its
\* "type" member; textIsString / words: its "content" member, a string cut
\* into phrases, or not a string; isError: its "is_error" member is the
\* boolean true.
Item(type, words, isError) ==
    [isMap |-> TRUE, type |-> type, textIsString |-> TRUE, words |-> words,
     isError |-> isError]

ItemNestedContent(type, words) ==
    [isMap |-> TRUE, type |-> type, textIsString |-> FALSE, words |-> words,
     isError |-> FALSE]

ItemNotMap ==
    [isMap |-> FALSE, type |-> "", textIsString |-> FALSE, words |-> <<>>,
     isError |-> FALSE]

\* *models.MessageContent
NilMessage == [isNil |-> TRUE, Content |-> ContentOther, Usage |-> NilUsage, Model |-> ""]

Message(content, usage, model) ==
    [isNil |-> FALSE, Content |-> content, Usage |-> usage, Model |-> model]

\* *models.ToolUseResult
NilToolUseResult == [isNil |-> TRUE, Interrupted |-> FALSE]

ToolUseResult(b) == [isNil |-> FALSE, Interrupted |-> b]

\* models.Entry as json.Unmarshal leaves it (ParsedTimestamp is the zero time)
Entry(uuid, parent, type, ts, cost, msg, tur) ==
    [UUID |-> uuid, ParentUUID |-> parent, Type |-> type, Timestamp |-> ts,
     CostUSD |-> cost, Message |-> msg, ToolUseResult |-> tur,
     ParsedTimestamp |-> ZeroTime]

\* strings.Contains(content, phrase) on a string cut into phrases
Contains(words, phrase) == \E k \in 1..Len(words) : words[k] = phrase

\* ------------------------------------------------------------ Go maps

EmptyMap == [k \in {} |-> 0]

\* m[k] = v
Put(m, k, v) == [x \in (DOMAIN m) \cup {k} |-> IF x = k THEN v ELSE m[x]]

\* --------------------------------------------------------- the aggregate

\* &models.CostAnalysis{...} as ParseAll builds it
NewAnalysis ==
    [Sessions |-> EmptyMap, Projects |-> EmptyMap, HourlyActivity |-> EmptyMap,
     DailyActivity |-> EmptyMap, ModelUsage |-> EmptyMap,
     ToolUse |-> [Accepted |-> 0, Rejected |-> 0],
     ResponseTimes |-> <<>>, StartDate |-> Now, EndDate |-> ZeroTime,
     TotalCost |-> 0, CacheSavings |-> 0, TotalInputTokens |-> 0,
     TotalOutputTokens |-> 0, TotalCacheRead |-> 0, TotalCacheWrite |-> 0]

\* &models.SessionStats{ResponseTimes: []time.Duration{}}
NewSession ==
    [StartTime |-> ZeroTime, EndTime |-> ZeroTime, ResponseTimes |-> <<>>,
     Cost |-> 0, InputTokens |-> 0, OutputTokens |-> 0, CacheReadTokens |-> 0,
     CacheWriteTokens |-> 0, TotalTokens |-> 0, MessageCount |-> 0]

\* &models.ProjectStats{ActiveDays: ..., ResponseTimes: ...}; a nil SessionIDs
\* map is the empty set
NewProject ==
    [ActiveDays |-> {}, SessionIDs |-> {}, ResponseTimes |-> <<>>, Cost |-> 0,
     Sessions |-> 0, InputTokens |-> 0, OutputTokens |-> 0,
     CacheReadTokens |-> 0, CacheWriteTokens |-> 0, TotalTokens |-> 0]

NewActivity == [MessageCount |-> 0, Cost |-> 0]

tokenData(i, o, cr, cw) ==
    [inputTokens |-> i, outputTokens |-> o, cacheReadTokens |-> cr,
     cacheWriteTokens |-> cw]

\* ------------------------------------------------------ processUserEntry

\* rejectedItem without the is_error indicator
rejectedItemNoErrorFlag(entry, itemMap) ==
    IF ~entry.ToolUseResult.isNil /\ entry.ToolUseResult.Interrupted
    THEN TRUE
    ELSE LET content == IF itemMap.textIsString THEN itemMap.words ELSE <<>>
         IN Contains(content, "user doesn't want to proceed")
            \/ Contains(content, "tool use was rejected")

\* the rejection indicators of one tool_result item
rejectedItem(entry, itemMap) ==
    IF ~entry.ToolUseResult.isNil /\ entry.ToolUseResult.Interrupted
    THEN TRUE
    ELSE LET content == IF itemMap.textIsString THEN itemMap.words ELSE <<>>
             isError == itemMap.isError
         IN Contains(content, "user doesn't want to proceed")
            \/ Contains(content, "tool use was rejected")
            \/ isError

\* countItem without the correction of Accepted for a rejected item
countItemNoCorrection(entry, itemMap, toolUse) ==
    IF ~itemMap.isMap THEN toolUse
    ELSE IF itemMap.type = "tool_result"
    THEN LET counted == [toolUse EXCEPT !.Accepted = @ + 1]
         IN IF rejectedItem(entry, itemMap)
            THEN [counted EXCEPT !.Rejected = @ + 1]
            ELSE counted
    ELSE toolUse

\* the body of the loop over contentArray for one item
countItem(entry, itemMap, toolUse) ==
    IF ~itemMap.isMap THEN toolUse
    ELSE IF itemMap.type = "tool_result"
    THEN LET counted == [toolUse EXCEPT !.Accepted = @ + 1]
         IN IF rejectedItem(entry, itemMap)
            THEN [counted EXCEPT !.Rejected = @ + 1, !.Accepted = @ - 1]
            ELSE counted
    ELSE toolUse

RECURSIVE contentLoop(_, _, _)
contentLoop(entry, k, toolUse) ==
    IF k > Len(entry.Message.Content.items) THEN toolUse
    ELSE contentLoop(entry, k + 1,
                     countItem(entry, entry.Message.Content.items[k], toolUse))

processUserEntry(entry, a) ==
    IF entry.Message.isNil THEN a
    ELSE IF entry.Message.Content.shape # "list" THEN a
    ELSE [a EXCEPT !.ToolUse = contentLoop(entry, 1, a.ToolUse)]

\* --------------------------------------------------- cost of one entry

\* calculateTokenCost without the > 0 guards on the token counts
calculateTokenCostUnguarded(usage, model) ==
    LET pricing == IF model \in DOMAIN ModelPricing
                   THEN ModelPricing[model] ELSE DefaultPricing
    IN usage.InputTokens * pricing.Input + usage.OutputTokens * pricing.Output
       + usage.CacheCreationInputTokens * pricing.CacheWrite
       + usage.CacheReadInputTokens * pricing.CacheRead

\* calculateTokenCost with cache reads taken off the input tokens before
\* pricing them (the double discount)
calculateTokenCostDiscounted(usage, model) ==
    LET pricing == IF model \in DOMAIN ModelPricing
                   THEN ModelPricing[model] ELSE DefaultPricing
        regular == usage.InputTokens - usage.CacheReadInputTokens
        cIn == IF regular > 0 THEN regular * pricing.Input ELSE 0
        cOut == IF usage.OutputTokens > 0
                THEN usage.OutputTokens * pricing.Output ELSE 0
        cWrite == IF usage.CacheCreationInputTokens > 0
                  THEN usage.CacheCreationInputTokens * pricing.CacheWrite ELSE 0
        cRead == IF usage.CacheReadInputTokens > 0
                 THEN usage.CacheReadInputTokens * pricing.CacheRead ELSE 0
    IN cIn + cOut + cWrite + cRead

calculateTokenCost(usage, model) ==
    LET pricing == IF model \in DOMAIN ModelPricing
                   THEN ModelPricing[model] ELSE DefaultPricing
        cIn == IF usage.InputTokens > 0
               THEN usage.InputTokens * pricing.Input ELSE 0
        cOut == IF usage.OutputTokens > 0
                THEN usage.OutputTokens * pricing.Output ELSE 0
        cWrite == IF usage.CacheCreationInputTokens > 0
                  THEN usage.CacheCreationInputTokens * pricing.CacheWrite ELSE 0
        cRead == IF usage.CacheReadInputTokens > 0
                 THEN usage.CacheReadInputTokens * pricing.CacheRead ELSE 0
    IN cIn + cOut + cWrite + cRead

\* the legacy guard dropped: the flat cost is never taken
hasLegacyCostNever(entry) == FALSE

\* the legacy path's guard: entry.CostUSD > 0
hasLegacyCost(entry) == entry.CostUSD > 0

extractCostAndTokens(entry) ==
    IF hasLegacyCost(entry)
    THEN [cost |-> entry.CostUSD, model |-> "", tokens |-> tokenData(0, 0, 0, 0)]
    ELSE IF entry.Message.isNil \/ entry.Message.Usage.isNil
    THEN [cost |-> 0, model |-> "", tokens |-> tokenData(0, 0, 0, 0)]
    ELSE IF entry.Message.Model = "<synthetic>"
    THEN [cost |-> 0, model |-> "", tokens |-> tokenData(0, 0, 0, 0)]
    ELSE LET usage == entry.Message.Usage
         IN [cost |-> calculateTokenCost(usage, entry.Message.Model),
             model |-> entry.Message.Model,
             tokens |-> tokenData(usage.InputTokens, usage.OutputTokens,
                                  usage.CacheReadInputTokens,
                                  usage.CacheCreationInputTokens)]

\* ------------------------------------------------- processAssistantEntry

getOrCreateSession(a, sessionID) ==
    IF sessionID \notin DOMAIN a.Sessions
    THEN [a EXCEPT !.Sessions = Put(@, sessionID, NewSession)]
    ELSE a

getOrCreateProject(a, projectName) ==
    IF projectName \notin DOMAIN a.Projects
    THEN [a EXCEPT !.Projects = Put(@, projectName, NewProject)]
    ELSE a

\* the outlier filter with both comparisons off by one
isOutlierInclusive(responseTime) == responseTime < 0 \/ responseTime > FiveMinutes

\* the outlier filter: responseTime <= 0 || responseTime >= 5*time.Minute
isOutlier(responseTime) == responseTime <= 0 \/ responseTime >= FiveMinutes

\* the two appends once a response time is accepted
recordResponseTime(a, projectName, responseTime) ==
    LET a1 == [a EXCEPT !.ResponseTimes = Append(@, responseTime)]
    IN IF projectName \in DOMAIN a1.Projects
       THEN [a1 EXCEPT !.Projects[projectName].ResponseTimes = Append(@, responseTime)]
       ELSE a1

calculateResponseTime(entry, a, projectName, timestamp, entries, byUUID) ==
    IF entry.ParentUUID = "" THEN a
    ELSE IF entry.ParentUUID \notin DOMAIN byUUID THEN a
    ELSE LET parentEntry == entries[byUUID[entry.ParentUUID]]
         IN IF parentEntry.Type # "user" THEN a
            ELSE LET parsed == parseTimestamp(parentEntry.Timestamp)
                 IN IF parsed.err THEN a
                    ELSE LET responseTime == timestamp - parsed.t
                         IN IF isOutlier(responseTime) THEN a
                            ELSE recordResponseTime(a, projectName, responseTime)

\* updateSessionStats taking the latest entry's timestamp as the end time
updateSessionStatsLastWins(a, sessionID, timestamp) ==
    LET a1 == getOrCreateSession(a, sessionID)
        s0 == a1.Sessions[sessionID]
        s1 == [s0 EXCEPT !.MessageCount = @ + 1]
        s2 == IF IsZero(s1.StartTime) \/ timestamp < s1.StartTime
              THEN [s1 EXCEPT !.StartTime = timestamp] ELSE s1
    IN [a1 EXCEPT !.Sessions[sessionID] = [s2 EXCEPT !.EndTime = timestamp]]

updateSessionStats(a, sessionID, timestamp) ==
    LET a1 == getOrCreateSession(a, sessionID)
        s0 == a1.Sessions[sessionID]
        s1 == [s0 EXCEPT !.MessageCount = @ + 1]
        s2 == IF IsZero(s1.StartTime) \/ timestamp < s1.StartTime
              THEN [s1 EXCEPT !.StartTime = timestamp] ELSE s1
        s3 == IF timestamp > s2.EndTime
              THEN [s2 EXCEPT !.EndTime = timestamp] ELSE s2
    IN [a1 EXCEPT !.Sessions[sessionID] = s3]

\* updateProjectStats keeping only the first active day of a project
updateProjectStatsFirstDay(a, projectName, sessionID, timestamp) ==
    LET a1 == getOrCreateProject(a, projectName)
        dayKey == DayKey(timestamp)
    IN [a1 EXCEPT !.Projects[projectName].SessionIDs = @ \cup {sessionID},
                  !.Projects[projectName].ActiveDays =
                      IF @ = {} THEN {dayKey} ELSE @]

updateProjectStats(a, projectName, sessionID, timestamp) ==
    LET a1 == getOrCreateProject(a, projectName)
        dayKey == DayKey(timestamp)
    IN [a1 EXCEPT !.Projects[projectName].SessionIDs = @ \cup {sessionID},
                  !.Projects[projectName].ActiveDays = @ \cup {dayKey}]

updateHourlyActivity(a, cost, timestamp) ==
    LET hour == Hour(timestamp)
        a1 == IF hour \notin DOMAIN a.HourlyActivity
              THEN [a EXCEPT !.HourlyActivity = Put(@, hour, NewActivity)] ELSE a
    IN [a1 EXCEPT !.HourlyActivity[hour].MessageCount = @ + 1,
                  !.HourlyActivity[hour].Cost = @ + cost]

\* updateDailyActivity adding the cost without counting the message
updateDailyActivityCostOnly(a, cost, timestamp) ==
    IF DayKey(timestamp) \notin DOMAIN a.DailyActivity
    THEN [a EXCEPT !.DailyActivity =
             Put(@, DayKey(timestamp), [NewActivity EXCEPT !.Cost = cost])]
    ELSE [a EXCEPT !.DailyActivity[DayKey(timestamp)].Cost = @ + cost]

updateDailyActivity(a, cost, timestamp) ==
    LET dayKey == DayKey(timestamp)
        a1 == IF dayKey \notin DOMAIN a.DailyActivity
              THEN [a EXCEPT !.DailyActivity = Put(@, dayKey, NewActivity)] ELSE a
    IN [a1 EXCEPT !.DailyActivity[dayKey].MessageCount = @ + 1,
                  !.DailyActivity[dayKey].Cost = @ + cost]

updateAnalysisStats(a, model, cost, tokens, timestamp) ==
    LET a1 == IF model # ""
              THEN [a EXCEPT !.ModelUsage =
                        Put(@, model, IF model \in DOMAIN @ THEN @[model] + 1 ELSE 1)]
              ELSE a
    IN updateDailyActivity(updateHourlyActivity(a1, cost, timestamp), cost, timestamp)

\* updateSessionCosts with the cache tokens folded into TotalTokens
updateSessionCostsCacheInTotal(a, sessionID, cost, tokens) ==
    [a EXCEPT !.Sessions[sessionID].Cost = @ + cost,
              !.Sessions[sessionID].InputTokens = @ + tokens.inputTokens,
              !.Sessions[sessionID].OutputTokens = @ + tokens.outputTokens,
              !.Sessions[sessionID].CacheReadTokens = @ + tokens.cacheReadTokens,
              !.Sessions[sessionID].CacheWriteTokens = @ + tokens.cacheWriteTokens,
              !.Sessions[sessionID].TotalTokens =
                  @ + tokens.inputTokens + tokens.outputTokens
                    + tokens.cacheReadTokens + tokens.cacheWriteTokens]

updateSessionCosts(a, sessionID, cost, tokens) ==
    [a EXCEPT !.Sessions[sessionID].Cost = @ + cost,
              !.Sessions[sessionID].InputTokens = @ + tokens.inputTokens,
              !.Sessions[sessionID].OutputTokens = @ + tokens.outputTokens,
              !.Sessions[sessionID].CacheReadTokens = @ + tokens.cacheReadTokens,
              !.Sessions[sessionID].CacheWriteTokens = @ + tokens.cacheWriteTokens,
              !.Sessions[sessionID].TotalTokens =
                  @ + tokens.inputTokens + tokens.outputTokens]

\* project is the pointer updateProjectStats returned: analysis.Projects[projectName]
updateProjectCosts(a, projectName, cost, tokens) ==
    [a EXCEPT !.Projects[projectName].Cost = @ + cost,
              !.Projects[projectName].InputTokens = @ + tokens.inputTokens,
              !.Projects[projectName].OutputTokens = @ + tokens.outputTokens,
              !.Projects[projectName].CacheReadTokens = @ + tokens.cacheReadTokens,
              !.Projects[projectName].CacheWriteTokens = @ + tokens.cacheWriteTokens,
              !.Projects[projectName].TotalTokens =
                  @ + tokens.inputTokens + tokens.outputTokens]

\* the early return dropped
noCostDataNever(ct) == FALSE

\* the early return of processAssistantEntry: cost == 0 && model == ""
noCostData(ct) == ct.cost = 0 /\ ct.model = ""

\* processAssistantEntry giving up an entry whose parent does not resolve to
\* a user entry
processAssistantEntrySkipsOrphan(entry, a, projectName, sessionID, timestamp, entries, byUUID) ==
    IF \/ entry.ParentUUID = ""
       \/ entry.ParentUUID \notin DOMAIN byUUID
    THEN a
    ELSE IF entries[byUUID[entry.ParentUUID]].Type # "user" THEN a
    ELSE updateProjectStats(
             updateSessionStats(
                 calculateResponseTime(entry, a, projectName, timestamp, entries, byUUID),
                 sessionID, timestamp),
             projectName, sessionID, timestamp)

processAssistantEntry(entry, a, projectName, sessionID, timestamp, entries, byUUID) ==
    LET a1 == calculateResponseTime(entry, a, projectName, timestamp, entries, byUUID)
        a2 == updateSessionStats(a1, sessionID, timestamp)
        a3 == updateProjectStats(a2, projectName, sessionID, timestamp)
        ct == extractCostAndTokens(entry)
    IN IF noCostData(ct) THEN a3
       ELSE LET a4 == updateAnalysisStats(a3, ct.model, ct.cost, ct.tokens, timestamp)
                a5 == updateSessionCosts(a4, sessionID, ct.cost, ct.tokens)
            IN updateProjectCosts(a5, projectName, ct.cost, ct.tokens)

\* ------------------------------------------------------------- parseFile

\* One raw line of a JSONL file: text json.Unmarshal rejects, or an entry.
BadJSON ==
    [malformed |-> TRUE,
     entry |-> Entry("", "", "", TsEmpty, 0, NilMessage, NilToolUseResult)]

JSONLine(e) == [malformed |-> FALSE, entry |-> e]

\* the cutoff filter dropped: every decodable entry is stored
beforeCutoffNever(timestamp) == FALSE

\* the cutoff filter of the scan loop: timestamp.Before(cutoffTime)
beforeCutoff(timestamp) == timestamp < cutoffTime

\* scanLine storing an entry whose timestamp does not parse, stamped with
\* the current time
scanLineKeepsBadTimestamp(st, line) ==
    IF line.malformed THEN st
    ELSE LET entry == line.entry
             parsed == parseTimestamp(entry.Timestamp)
             t == IF parsed.err THEN Now ELSE parsed.t
         IN IF beforeCutoff(t) THEN st
            ELSE LET stored == [entry EXCEPT !.ParsedTimestamp = t]
                     entries == Append(st.allEntries, stored)
                 IN [allEntries |-> entries,
                     entriesByUUID |->
                         IF entry.UUID # ""
                         THEN Put(st.entriesByUUID, entry.UUID, Len(entries))
                         ELSE st.entriesByUUID]

\* One iteration of the scan loop on the pair (allEntries, entriesByUUID).
scanLine(st, line) ==
    IF line.malformed THEN st
    ELSE LET entry == line.entry
             parsed == parseTimestamp(entry.Timestamp)
         IN IF parsed.err THEN st
            ELSE IF beforeCutoff(parsed.t) THEN st
            ELSE LET stored == [entry EXCEPT !.ParsedTimestamp = parsed.t]
                     entries == Append(st.allEntries, stored)
                 IN [allEntries |-> entries,
                     entriesByUUID |->
                         IF entry.UUID # ""
                         THEN Put(st.entriesByUUID, entry.UUID, Len(entries))
                         ELSE st.entriesByUUID]

\* the date-range update at the head of the processing loop
updateDateRange(a, timestamp) ==
    LET a1 == IF a.StartDate > timestamp \/ IsZero(a.StartDate)
              THEN [a EXCEPT !.StartDate = timestamp] ELSE a
    IN IF a1.EndDate < timestamp THEN [a1 EXCEPT !.EndDate = timestamp] ELSE a1

\* processEntry resolving parents in an index of the entries before
\* allEntries[k] only
processEntrySeenSoFar(a, entries, byUUID, k, projectName, sessionID) ==
    LET seen == {u \in DOMAIN byUUID : byUUID[u] < k}
    IN IF entries[k].Type = "assistant"
       THEN processAssistantEntry(entries[k],
                                  updateDateRange(a, entries[k].ParsedTimestamp),
                                  projectName, sessionID, entries[k].ParsedTimestamp,
                                  entries, [u \in seen |-> byUUID[u]])
       ELSE IF entries[k].Type = "user"
       THEN processUserEntry(entries[k],
                             updateDateRange(a, entries[k].ParsedTimestamp))
       ELSE updateDateRange(a, entries[k].ParsedTimestamp)

\* processEntry folding every kind other than user as a reply
processEntryDefaultReply(a, entries, byUUID, k, projectName, sessionID) ==
    IF entries[k].Type = "user"
    THEN processUserEntry(entries[k], updateDateRange(a, entries[k].ParsedTimestamp))
    ELSE processAssistantEntry(entries[k],
                               updateDateRange(a, entries[k].ParsedTimestamp),
                               projectName, sessionID, entries[k].ParsedTimestamp,
                               entries, byUUID)

\* One iteration of the processing loop, on allEntries[k].
processEntry(a, entries, byUUID, k, projectName, sessionID) ==
    LET entry == entries[k]
        timestamp == entry.ParsedTimestamp
        a1 == updateDateRange(a, timestamp)
    IN IF entry.Type = "user" THEN processUserEntry(entry, a1)
       ELSE IF entry.Type = "assistant"
       THEN processAssistantEntry(entry, a1, projectName, sessionID, timestamp,
                                  entries, byUUID)
       ELSE a1

\* A file path <claudeDir>/projects/<dir>/<base>.jsonl
File(dir, base) == [dir |-> dir, base |-> base]

\* extractProjectName on the encoded directory names of the model: none of
\* them starts with "-home-", so the fallback replaces every "-" by "/".
extractProjectName(filename) ==
    IF filename.dir = "-p1" THEN "/p1"
    ELSE IF filename.dir = "-p2" THEN "/p2"
    ELSE "unknown"

\* strings.TrimSuffix(filepath.Base(filename), ".jsonl")
sessionIDOf(filename) == filename.base

\* the project name parseFile uses: the cached one, else the decoded one
projectNameOf(cache, filename) ==
    IF filename \in DOMAIN cache THEN cache[filename] ELSE extractProjectName(filename)

\* -------------------------------------------------------- calculateTotals

RECURSIVE SumOver(_, _, _)
\* the sum of field f over the records of map m, keys taken from ks
SumOver(m, ks, f) ==
    IF ks = {} THEN 0
    ELSE LET k == CHOOSE x \in ks : TRUE
         IN m[k][f] + SumOver(m, ks \ {k}, f)

\* calculateTotals with the cache-write total left out of the loop
calculateTotalsNoCacheWrite(a) ==
    LET ss == a.Sessions
        totalCacheRead == a.TotalCacheRead + SumOver(ss, DOMAIN ss, "CacheReadTokens")
    IN [a EXCEPT
          !.TotalCost = @ + SumOver(ss, DOMAIN ss, "Cost"),
          !.TotalInputTokens = @ + SumOver(ss, DOMAIN ss, "InputTokens"),
          !.TotalOutputTokens = @ + SumOver(ss, DOMAIN ss, "OutputTokens"),
          !.TotalCacheRead = totalCacheRead,
          !.Projects = [n \in DOMAIN a.Projects |->
                           [a.Projects[n] EXCEPT
                              !.Sessions = Cardinality(a.Projects[n].SessionIDs)]],
          !.CacheSavings = totalCacheRead * 30000 - totalCacheRead * 3000]

calculateTotals(a) ==
    LET ss == a.Sessions
        totalCacheRead == a.TotalCacheRead + SumOver(ss, DOMAIN ss, "CacheReadTokens")
        avgInputPrice == 30000
        cacheReadPrice == 3000
        fullCost == totalCacheRead * avgInputPrice
        discountedCost == totalCacheRead * cacheReadPrice
    IN [a EXCEPT
          !.TotalCost = @ + SumOver(ss, DOMAIN ss, "Cost"),
          !.TotalInputTokens = @ + SumOver(ss, DOMAIN ss, "InputTokens"),
          !.TotalOutputTokens = @ + SumOver(ss, DOMAIN ss, "OutputTokens"),
          !.TotalCacheRead = totalCacheRead,
          !.TotalCacheWrite = @ + SumOver(ss, DOMAIN ss, "CacheWriteTokens"),
          !.Projects = [n \in DOMAIN a.Projects |->
                           [a.Projects[n] EXCEPT
                              !.Sessions = Cardinality(a.Projects[n].SessionIDs)]],
          !.CacheSavings = fullCost - discountedCost]

\* ------------------------------------- float64 sums in calculateTotals

\* float64 values are non-negative multiples of 2^-FracBits, the integer k
\* standing for k * 2^-FracBits.  Every operation rounds its exact result to
\* the nearest representable value, ties to even; the mantissa is shortened
\* from 53 bits to FloatBits bits.  (Money totals are summed in their own
\* unit, which plays the part of 2^-FracBits there.)
RECURSIVE Ulp(_)
\* the spacing of representable values at magnitude x
Ulp(x) == IF x < 2 ^ FloatBits THEN 1 ELSE 2 * Ulp(x \div 2)

\* the representable value nearest to the exact quotient n / d
RoundRatio(n, d) ==
    LET s == Ulp(n \div d)
        q == n \div (d * s)
        r == n - q * d * s
    IN IF 2 * r < d * s THEN q * s
       ELSE IF 2 * r > d * s THEN (q + 1) * s
       ELSE IF q % 2 = 0 THEN q * s
       ELSE (q + 1) * s

\* 1.0
FloatOne == 2 ^ FracBits

\* float64(k) of a small non-negative integer k, exact in float64
Float(k) == k * FloatOne

\* int(x): truncation of a non-negative float
ToInt(x) == x \div FloatOne

\* x + y, x - y (for x >= y), x * y and x / y on float64
FloatAdd(x, y) == RoundRatio(x + y, 1)

FloatSub(x, y) == RoundRatio(x - y, 1)

FloatMul(x, y) == RoundRatio(x * y, FloatOne)

FloatDiv(x, y) == RoundRatio(x * FloatOne, y)

\* the orders in which range can visit the keys of map m
IterationOrders(m) ==
    {o \in [1..Cardinality(DOMAIN m) -> DOMAIN m] :
        \A i, j \in 1..Cardinality(DOMAIN m) : o[i] = o[j] => i = j}

RECURSIVE totalsLoop(_, _)
\* the loop of calculateTotals over analysis.Sessions, visiting the keys in
\* the given order
totalsLoop(a, order) ==
    IF order = <<>> THEN a
    ELSE LET session == a.Sessions[Head(order)]
         IN totalsLoop([a EXCEPT
                           !.TotalCost = FloatAdd(@, session.Cost),
                           !.TotalInputTokens = @ + session.InputTokens,
                           !.TotalOutputTokens = @ + session.OutputTokens,
                           !.TotalCacheRead = @ + session.CacheReadTokens,
                           !.TotalCacheWrite = @ + session.CacheWriteTokens],
                       Tail(order))

\* calculateTotals with the iteration order of the session map made explicit
calculateTotalsOrdered(a, order) ==
    LET a1 == totalsLoop(a, order)
        avgInputPrice == 30000
        cacheReadPrice == 3000
        fullCost == a1.TotalCacheRead * avgInputPrice
        discountedCost == a1.TotalCacheRead * cacheReadPrice
    IN [a1 EXCEPT
          !.Projects = [n \in DOMAIN a1.Projects |->
                           [a1.Projects[n] EXCEPT
                              !.Sessions = Cardinality(a1.Projects[n].SessionIDs)]],
          !.CacheSavings = fullCost - discountedCost]

\* ------------------------------------------------ the statistics engine

\* percentile with the two interpolation weights exchanged
percentileSwappedWeights(sorted, p) ==
    IF Len(sorted) = 0 THEN 0
    ELSE LET index == FloatMul(FloatDiv(Float(p), Float(100)),
                               Float(Len(sorted) - 1))
             lower == ToInt(index)
             upper == lower + 1
         IN IF upper >= Len(sorted) THEN sorted[Len(sorted)]
            ELSE LET weight == FloatSub(index, Float(lower))
                 IN FloatAdd(FloatMul(sorted[lower + 1], weight),
                             FloatMul(sorted[upper + 1], FloatSub(FloatOne, weight)))

\* percentile(sorted, p) for p >= 0; lower and upper are the code's 0-based
\* indices, sequences are 1-based
percentile(sorted, p) ==
    IF Len(sorted) = 0 THEN 0
    ELSE LET index == FloatMul(FloatDiv(Float(p), Float(100)),
                               Float(Len(sorted) - 1))
             lower == ToInt(index)
             upper == lower + 1
         IN IF upper >= Len(sorted) THEN sorted[Len(sorted)]
            ELSE LET weight == FloatSub(index, Float(lower))
                 IN FloatAdd(FloatMul(sorted[lower + 1], FloatSub(FloatOne, weight)),
                             FloatMul(sorted[upper + 1], weight))

\* d.Seconds() of a duration of d whole seconds
Seconds(duration) == RoundRatio(Float(duration), 1)

RECURSIVE InsertSorted(_, _)
\* x put into the ascending sequence s
InsertSorted(x, s) ==
    IF s = <<>> THEN <<x>>
    ELSE IF x <= Head(s) THEN <<x>> \o s
    ELSE <<Head(s)>> \o InsertSorted(x, Tail(s))

RECURSIVE SortFloat64s(_)
\* sort.Float64s
SortFloat64s(s) ==
    IF s = <<>> THEN <<>> ELSE InsertSorted(Head(s), SortFloat64s(Tail(s)))

RECURSIVE FloatSum(_, _)
\* sum := 0.0; for _, t := range times { sum += t }
FloatSum(sum, times) ==
    IF times = <<>> THEN sum
    ELSE FloatSum(FloatAdd(sum, Head(times)), Tail(times))

\* ResponseTimeStats{}
ZeroResponseTimeStats ==
    [Count |-> 0, Min |-> 0, Max |-> 0, Average |-> 0,
     P50 |-> 0, P90 |-> 0, P95 |-> 0, P99 |-> 0]

GetResponseTimeStats(a) ==
    IF Len(a.ResponseTimes) = 0 THEN ZeroResponseTimeStats
    ELSE LET times == SortFloat64s([i \in 1..Len(a.ResponseTimes) |->
                                       Seconds(a.ResponseTimes[i])])
         IN [Count |-> Len(times),
             Min |-> times[1],
             Max |-> times[Len(times)],
             P50 |-> percentile(times, 50),
             P90 |-> percentile(times, 90),
             P95 |-> percentile(times, 95),
             P99 |-> percentile(times, 99),
             Average |-> FloatDiv(FloatSum(0, times), Float(Len(times)))]

\* time.Duration values of the summaries are in milliseconds
MillisPerSecond == 1000

RECURSIVE DurationSum(_)
\* sum := time.Duration(0); for _, rt := range proj.ResponseTimes { sum += rt }
DurationSum(rts) == IF rts = <<>> THEN 0 ELSE Head(rts) + DurationSum(Tail(rts))

\* the ProjectSummary GetTopProjects builds for one project
ProjectSummary(name, proj) ==
    [Name |-> name, Cost |-> proj.Cost, Sessions |-> proj.Sessions,
     InputTokens |-> proj.InputTokens, OutputTokens |-> proj.OutputTokens,
     CacheReadTokens |-> proj.CacheReadTokens,
     CacheWriteTokens |-> proj.CacheWriteTokens,
     ActiveDays |-> Cardinality(proj.ActiveDays),
     AvgResponseTime |->
         IF Len(proj.ResponseTimes) > 0
         THEN (DurationSum(proj.ResponseTimes) * MillisPerSecond)
                  \div Len(proj.ResponseTimes)
         ELSE 0]

RECURSIVE InsertDescending(_, _, _)
\* one pass of the insertion sort: x moves left while it is greater, in field
\* f, than its left neighbour
InsertDescending(prefix, x, f) ==
    IF prefix = <<>> THEN <<x>>
    ELSE IF x[f] > prefix[Len(prefix)][f]
    THEN InsertDescending(SubSeq(prefix, 1, Len(prefix) - 1), x, f)
             \o <<prefix[Len(prefix)]>>
    ELSE prefix \o <<x>>

RECURSIVE SortSliceDescending(_, _)
\* sort.Slice(s, func(i, j) { return s[i].f > s[j].f }) on a slice of at most
\* 12 elements, which the sort package sorts by insertion
SortSliceDescending(s, f) ==
    IF s = <<>> THEN <<>>
    ELSE InsertDescending(SortSliceDescending(SubSeq(s, 1, Len(s) - 1), f),
                          s[Len(s)], f)

\* GetTopProjects with the lowest cost first
GetTopProjectsAscending(a, order, limit) ==
    LET projects == [i \in 1..Len(order) |->
                        ProjectSummary(order[i], a.Projects[order[i]])]
        sorted == SortSliceDescending(projects, "Cost")
        reversed == [i \in 1..Len(sorted) |-> sorted[Len(sorted) + 1 - i]]
    IN IF limit > 0 /\ Len(reversed) > limit THEN SubSeq(reversed, 1, limit)
       ELSE reversed

\* GetTopProjects(limit), range visiting analysis.Projects in the given order
GetTopProjects(a, order, limit) ==
    LET projects == [i \in 1..Len(order) |->
                        ProjectSummary(order[i], a.Projects[order[i]])]
        sorted == SortSliceDescending(projects, "Cost")
    IN IF limit > 0 /\ Len(sorted) > limit THEN SubSeq(sorted, 1, limit)
       ELSE sorted

\* GetCacheHitRate with the cache reads counted into the denominator
GetCacheHitRateOfAllInput(a) ==
    IF a.TotalInputTokens = 0 THEN 0
    ELSE FloatMul(FloatDiv(Float(a.TotalCacheRead),
                           Float(a.TotalInputTokens + a.TotalCacheRead)),
                  Float(100))

GetCacheHitRate(a) ==
    LET totalInput == a.TotalInputTokens
    IN IF totalInput = 0 THEN 0
       ELSE FloatMul(FloatDiv(Float(a.TotalCacheRead), Float(totalInput)),
                     Float(100))

\* TotalCost is a float64 in the aggregate's money unit
GetAverageCostPerSession(a) ==
    IF Cardinality(DOMAIN a.Sessions) = 0 THEN 0
    ELSE FloatDiv(a.TotalCost, Float(Cardinality(DOMAIN a.Sessions)))

\* data[hour] for hour 0..23 is element hour + 1
GetHourlyDistribution(a) ==
    [i \in 1..24 |->
        IF (i - 1) \in DOMAIN a.HourlyActivity
        THEN [Hour |-> i - 1, Messages |-> a.HourlyActivity[i - 1].MessageCount,
              Cost |-> a.HourlyActivity[i - 1].Cost]
        ELSE [Hour |-> i - 1, Messages |-> 0, Cost |-> 0]]

RECURSIVE SortStrings(_)
\* sort.Strings on the day keys, which are distinct
SortStrings(dates) ==
    IF dates = {} THEN <<>>
    ELSE LET first == CHOOSE x \in dates : \A y \in dates : x <= y
         IN <<first>> \o SortStrings(dates \ {first})

GetDailyTrend(a) ==
    LET dates == SortStrings(DOMAIN a.DailyActivity)
    IN [i \in 1..Len(dates) |->
           [Date |-> dates[i],
            Messages |-> a.DailyActivity[dates[i]].MessageCount,
            Cost |-> a.DailyActivity[dates[i]].Cost]]

RECURSIVE CountSum(_, _)
\* total := 0; for _, count := range s.analysis.ModelUsage { total += count }
CountSum(m, ks) ==
    IF ks = {} THEN 0
    ELSE LET k == CHOOSE x \in ks : TRUE IN m[k] + CountSum(m, ks \ {k})

\* GetModelDistribution, range visiting analysis.ModelUsage in the given order
GetModelDistribution(a, order) ==
    LET total == CountSum(a.ModelUsage, DOMAIN a.ModelUsage)
        models == [i \in 1..Len(order) |->
                      [Model |-> order[i], Count |-> a.ModelUsage[order[i]],
                       Percentage |->
                           IF total > 0
                           THEN FloatMul(FloatDiv(Float(a.ModelUsage[order[i]]),
                                                  Float(total)), Float(100))
                           ELSE 0]]
    IN SortSliceDescending(models, "Count")

\* updateHourlyActivity on a float64 cost
updateHourlyActivityFloat(a, cost, timestamp) ==
    LET hour == Hour(timestamp)
        a1 == IF hour \notin DOMAIN a.HourlyActivity
              THEN [a EXCEPT !.HourlyActivity = Put(@, hour, NewActivity)] ELSE a
    IN [a1 EXCEPT !.HourlyActivity[hour].MessageCount = @ + 1,
                  !.HourlyActivity[hour].Cost = FloatAdd(@, cost)]

\* updateDailyActivity on a float64 cost
updateDailyActivityFloat(a, cost, timestamp) ==
    LET dayKey == DayKey(timestamp)
        a1 == IF dayKey \notin DOMAIN a.DailyActivity
              THEN [a EXCEPT !.DailyActivity = Put(@, dayKey, NewActivity)] ELSE a
    IN [a1 EXCEPT !.DailyActivity[dayKey].MessageCount = @ + 1,
                  !.DailyActivity[dayKey].Cost = FloatAdd(@, cost)]

\* updateAnalysisStats on a float64 cost
updateAnalysisStatsFloat(a, model, cost, tokens, timestamp) ==
    LET a1 == IF model # ""
              THEN [a EXCEPT !.ModelUsage =
                        Put(@, model, IF model \in DOMAIN @ THEN @[model] + 1 ELSE 1)]
              ELSE a
    IN updateDailyActivityFloat(updateHourlyActivityFloat(a1, cost, timestamp),
                                cost, timestamp)

\* updateSessionCosts on a float64 cost
updateSessionCostsFloat(a, sessionID, cost, tokens) ==
    [a EXCEPT !.Sessions[sessionID].Cost = FloatAdd(@, cost),
              !.Sessions[sessionID].InputTokens = @ + tokens.inputTokens,
              !.Sessions[sessionID].OutputTokens = @ + tokens.outputTokens,
              !.Sessions[sessionID].CacheReadTokens = @ + tokens.cacheReadTokens,
              !.Sessions[sessionID].CacheWriteTokens = @ + tokens.cacheWriteTokens,
              !.Sessions[sessionID].TotalTokens =
                  @ + tokens.inputTokens + tokens.outputTokens]

\* updateProjectCosts on a float64 cost
updateProjectCostsFloat(a, projectName, cost, tokens) ==
    [a EXCEPT !.Projects[projectName].Cost = FloatAdd(@, cost),
              !.Projects[projectName].InputTokens = @ + tokens.inputTokens,
              !.Projects[projectName].OutputTokens = @ + tokens.outputTokens,
              !.Projects[projectName].CacheReadTokens = @ + tokens.cacheReadTokens,
              !.Projects[projectName].CacheWriteTokens = @ + tokens.cacheWriteTokens,
              !.Projects[projectName].TotalTokens =
                  @ + tokens.inputTokens + tokens.outputTokens]

\* processAssistantEntry on an entry without parent whose cost, model and
\* tokens extractCostAndTokens returned as ct, the cost a float64
processAssistantEntryFloat(ct, a, projectName, sessionID, timestamp) ==
    LET a2 == updateSessionStats(a, sessionID, timestamp)
        a3 == updateProjectStats(a2, projectName, sessionID, timestamp)
    IN IF noCostData(ct) THEN a3
       ELSE LET a4 == updateAnalysisStatsFloat(a3, ct.model, ct.cost, ct.tokens,
                                               timestamp)
                a5 == updateSessionCostsFloat(a4, sessionID, ct.cost, ct.tokens)
            IN updateProjectCostsFloat(a5, projectName, ct.cost, ct.tokens)

\* ------------------------------------------------------------ the input

\* Instants log lines carry: one second before the cutoff, the cutoff itself,
\* one second and five minutes after it, and one in the future of Now.
T0 == cutoffTime - 1
T1 == cutoffTime
T2 == cutoffTime + 1
T3 == cutoffTime + FiveMinutes
T5 == Now + 10

Accept == <<"ok">>
Refusal == <<"The", "user doesn't want to proceed", "with this tool use.">>
Rejection == <<"The", "tool use was rejected", ".">>

OpusUsage == Usage(2, 1, 1, 3)

\* the files the glob can find, in glob (lexical) order
AllFiles == <<File("-p1", "s1"), File("-p1", "s2"), File("-p2", "s1")>>

\* the possible glob results, order kept: no file; one file; two sessions of
\* one project; the same base name under two projects
FileLists ==
    { <<>>,
      <<AllFiles[1]>>,
      <<AllFiles[1], AllFiles[2]>>,
      <<AllFiles[1], AllFiles[3]>> }

\* the lines a file can hold
UserLines ==
    { JSONLine(Entry("u1", "", "user", TsZ(T1), 0,
                     Message(ContentList(<<Item("tool_result", Accept, FALSE)>>),
                             NilUsage, ""),
                     NilToolUseResult)),
      JSONLine(Entry("u2", "u1", "user", TsOff(T2 + 3600, 3600), 0,
                     Message(ContentList(<<Item("tool_result", Accept, TRUE),
                                           Item("text", Refusal, FALSE),
                                           ItemNotMap,
                                           Item("tool_result", Accept, FALSE)>>),
                             NilUsage, ""),
                     ToolUseResult(FALSE))),
      JSONLine(Entry("u1", "", "user", TsZ(T0), 0,
                     Message(ContentList(<<Item("tool_result", Rejection, FALSE)>>),
                             NilUsage, ""),
                     ToolUseResult(TRUE))),
      JSONLine(Entry("u2", "", "user", TsBad, 0,
                     Message(ContentList(<<Item("tool_result", Refusal, FALSE)>>),
                             NilUsage, ""),
                     NilToolUseResult)) }

AssistantLines ==
    { JSONLine(Entry("a1", "u1", "assistant", TsZ(T2), 0,
                     Message(ContentString, OpusUsage, "claude-opus-4-20250514"),
                     NilToolUseResult)),
      JSONLine(Entry("a2", "u1", "assistant", TsZ(T3), 7,
                     Message(ContentString, OpusUsage, "claude-sonnet-4-20250514"),
                     NilToolUseResult)),
      JSONLine(Entry("", "u2", "assistant", TsZ(T3), 0,
                     NilMessage, NilToolUseResult)),
      JSONLine(Entry("a1", "", "assistant", TsZ(T0), 7,
                     Message(ContentString, OpusUsage, "claude-opus-4-20250514"),
                     NilToolUseResult)),
      JSONLine(Entry("", "u2", "assistant", TsZ(T1), 0,
                     Message(ContentString, Usage(-1, 1, -2, 0), "unknown-model"),
                     NilToolUseResult)),
      JSONLine(Entry("a2", "u1", "assistant", TsZ(T5), -7,
                     Message(ContentString, OpusUsage, "<synthetic>"),
                     NilToolUseResult)),
      JSONLine(Entry("u1", "u1", "assistant", TsEmpty, 7,
                     Message(ContentString, OpusUsage, "claude-opus-4-20250514"),
                     NilToolUseResult)) }

OtherLines ==
    { BadJSON,
      JSONLine(Entry("u1", "", "summary", TsZ(T5), 0, NilMessage, NilToolUseResult)) }

Lines == UserLines \cup AssistantLines \cup OtherLines

\* ------------------------------------------------------ the state machine

NoProbe == [fn |-> "none"]

\* ParseAll up to the glob: the fresh aggregate, nothing parsed yet
Init ==
    /\ analysis = NewAnalysis
    /\ pc = "start"
    /\ uniqueFiles \in FileLists
    /\ fileIdx = 1
    /\ allEntries = <<>>
    /\ entriesByUUID = EmptyMap
    /\ entryIdx = 1
    /\ projectNameCache = EmptyMap
    /\ result = "none"
    /\ input = <<>>
    /\ linesRead = 0
    /\ probe = NoProbe

\* NoFilesFound returning the empty aggregate instead of the error
NoFilesFoundEmptyAnalysis ==
    /\ pc = "start"
    /\ Len(uniqueFiles) = 0
    /\ pc' = "done"
    /\ analysis' = calculateTotals(analysis)
    /\ result' = "analysis"
    /\ UNCHANGED <<uniqueFiles, fileIdx, allEntries, entriesByUUID,
                   entryIdx, projectNameCache, input, linesRead, probe>>

\* ParseAll: len(uniqueFiles) == 0, return nil, ErrNoJSONLFiles
NoFilesFound ==
    /\ pc = "start"
    /\ Len(uniqueFiles) = 0
    /\ pc' = "done"
    /\ result' = "ErrNoJSONLFiles"
    /\ UNCHANGED <<analysis, uniqueFiles, fileIdx, allEntries, entriesByUUID,
                   entryIdx, projectNameCache, input, linesRead, probe>>

\* ParseAll: at least one file, enter the loop over uniqueFiles
FilesFound ==
    /\ pc = "start"
    /\ Len(uniqueFiles) > 0
    /\ pc' = "files"
    /\ UNCHANGED <<analysis, uniqueFiles, fileIdx, allEntries, entriesByUUID,
                   entryIdx, projectNameCache, result, input, linesRead, probe>>

\* parseFile: os.Open succeeds; project name cached, locals allocated
OpenFile ==
    /\ pc = "files"
    /\ fileIdx <= Len(uniqueFiles)
    /\ LET filename == uniqueFiles[fileIdx]
       IN /\ projectNameCache' =
                 Put(projectNameCache, filename,
                     projectNameOf(projectNameCache, filename))
          /\ input' = Append(input, [file |-> filename, lines |-> <<>>,
                                     status |-> "open", dropped |-> 0])
    /\ allEntries' = <<>>
    /\ entriesByUUID' = EmptyMap
    /\ entryIdx' = 1
    /\ pc' = "scan"
    /\ UNCHANGED <<analysis, uniqueFiles, fileIdx, result, linesRead, probe>>

\* parseFile: os.Open fails; ParseAll prints the warning and goes on
OpenFails ==
    /\ pc = "files"
    /\ fileIdx <= Len(uniqueFiles)
    /\ input' = Append(input, [file |-> uniqueFiles[fileIdx], lines |-> <<>>,
                               status |-> "openFailed", dropped |-> 0])
    /\ fileIdx' = fileIdx + 1
    /\ UNCHANGED <<analysis, pc, uniqueFiles, allEntries, entriesByUUID,
                   entryIdx, projectNameCache, result, linesRead, probe>>

\* parseFile: one iteration of the scan loop
ScanLine ==
    /\ pc = "scan"
    /\ linesRead < MaxTotalLines
    /\ \E line \in Lines :
         LET st == scanLine([allEntries |-> allEntries,
                             entriesByUUID |-> entriesByUUID], line)
         IN /\ allEntries' = st.allEntries
            /\ entriesByUUID' = st.entriesByUUID
            /\ input' = [input EXCEPT ![Len(input)].lines = Append(@, line)]
    /\ linesRead' = linesRead + 1
    /\ UNCHANGED <<analysis, pc, uniqueFiles, fileIdx, entryIdx,
                   projectNameCache, result, probe>>

\* ScanFails with the first collected entry already folded when the scanner
\* error is returned
ScanFailsAfterFold ==
    /\ pc = "scan"
    /\ input' = [input EXCEPT ![Len(input)].status = "scanFailed",
                              ![Len(input)].lines = <<>>,
                              ![Len(input)].dropped = Len(allEntries)]
    /\ analysis' =
          IF allEntries = <<>> THEN analysis
          ELSE processEntry(analysis, allEntries, entriesByUUID, 1,
                            projectNameCache[uniqueFiles[fileIdx]],
                            sessionIDOf(uniqueFiles[fileIdx]))
    /\ allEntries' = <<>>
    /\ entriesByUUID' = EmptyMap
    /\ fileIdx' = fileIdx + 1
    /\ pc' = "files"
    /\ UNCHANGED <<uniqueFiles, entryIdx, projectNameCache, result, linesRead, probe>>

\* parseFile: scanner.Err() is not nil; the file is given up, nothing processed
ScanFails ==
    /\ pc = "scan"
    /\ input' = [input EXCEPT ![Len(input)].status = "scanFailed",
                              ![Len(input)].lines = <<>>,
                              ![Len(input)].dropped = Len(allEntries)]
    /\ allEntries' = <<>>
    /\ entriesByUUID' = EmptyMap
    /\ fileIdx' = fileIdx + 1
    /\ pc' = "files"
    /\ UNCHANGED <<analysis, uniqueFiles, entryIdx, projectNameCache, result, linesRead, probe>>

\* parseFile: end of file, the scan loop ends and the processing loop starts
ScanDone ==
    /\ pc = "scan"
    /\ pc' = "process"
    /\ entryIdx' = 1
    /\ UNCHANGED <<analysis, uniqueFiles, fileIdx, allEntries, entriesByUUID,
                   projectNameCache, result, input, linesRead, probe>>

\* parseFile: one iteration of the processing loop
ProcessEntry ==
    /\ pc = "process"
    /\ entryIdx <= Len(allEntries)
    /\ LET filename == uniqueFiles[fileIdx]
       IN analysis' = processEntry(analysis, allEntries, entriesByUUID, entryIdx,
                                   projectNameCache[filename], sessionIDOf(filename))
    /\ entryIdx' = entryIdx + 1
    /\ UNCHANGED <<pc, uniqueFiles, fileIdx, allEntries, entriesByUUID,
                   projectNameCache, result, input, linesRead, probe>>

\* parseFile returns nil; ParseAll moves to the next file
FileDone ==
    /\ pc = "process"
    /\ entryIdx > Len(allEntries)
    /\ input' = [input EXCEPT ![Len(input)].status = "done"]
    /\ allEntries' = <<>>
    /\ entriesByUUID' = EmptyMap
    /\ entryIdx' = 1
    /\ fileIdx' = fileIdx + 1
    /\ pc' = "files"
    /\ UNCHANGED <<analysis, uniqueFiles, projectNameCache, result, linesRead, probe>>

\* ParseAll: every file tried, calculateTotals, return analysis, nil
Finish ==
    /\ pc = "files"
    /\ fileIdx > Len(uniqueFiles)
    /\ analysis' = calculateTotals(analysis)
    /\ result' = "analysis"
    /\ pc' = "done"
    /\ UNCHANGED <<uniqueFiles, fileIdx, allEntries, entriesByUUID, entryIdx,
                   projectNameCache, input, linesRead, probe>>

Next ==
    \/ NoFilesFound
    \/ FilesFound
    \/ OpenFile
    \/ OpenFails
    \/ ScanLine
    \/ ScanFails
    \/ ScanDone
    \/ ProcessEntry
    \/ FileDone
    \/ Finish

Spec == Init /\ [][Next]_vars

\* ------------------------------------- calculateTokenCost on its own

ProbeTokens == {-1, 0, 1, 200, 500, 1000}

ProbeModels ==
    {"claude-opus-4-20250514", "claude-sonnet-4-20250514",
     "claude-3-5-haiku-20241022", "claude-3-haiku-20240307",
     "unknown-model", ""}

\* the parse has not started; a usage record and a model name are at hand
InitCost ==
    /\ analysis = NewAnalysis
    /\ pc = "probe"
    /\ uniqueFiles = <<>>
    /\ fileIdx = 1
    /\ allEntries = <<>>
    /\ entriesByUUID = EmptyMap
    /\ entryIdx = 1
    /\ projectNameCache = EmptyMap
    /\ result = "none"
    /\ input = <<>>
    /\ linesRead = 0
    /\ \E i \in ProbeTokens, o \in ProbeTokens, cw \in ProbeTokens,
          cr \in ProbeTokens, m \in ProbeModels :
         probe = [fn |-> "calculateTokenCost", usage |-> Usage(i, o, cw, cr),
                  model |-> m, done |-> FALSE, cost |-> 0]

\* p.calculateTokenCost(usage, model)
CostCall ==
    /\ pc = "probe"
    /\ probe.fn = "calculateTokenCost"
    /\ ~probe.done
    /\ probe' = [probe EXCEPT !.done = TRUE,
                              !.cost = calculateTokenCost(probe.usage, probe.model)]
    /\ UNCHANGED <<analysis, pc, uniqueFiles, fileIdx, allEntries, entriesByUUID,
                   entryIdx, projectNameCache, result, input, linesRead>>

NextCost == CostCall

SpecCost == InitCost /\ [][NextCost]_vars

\* ------------------------------------- processUserEntry on its own

ProbeContents == {Accept, Refusal, Rejection}

\* the elements a content array can hold
ProbeItems ==
    { [isMap |-> TRUE, type |-> t, textIsString |-> str, words |-> w, isError |-> e] :
        t \in {"tool_result", "text"}, str \in BOOLEAN, w \in ProbeContents,
        e \in BOOLEAN }
    \cup {ItemNotMap}

ProbeItemLists ==
    {<<>>} \cup { <<x>> : x \in ProbeItems } \cup
    { <<x, y>> : x \in ProbeItems, y \in {Item("tool_result", Accept, FALSE),
                                          Item("tool_result", Accept, TRUE)} }

ProbeMessages ==
    {NilMessage, Message(ContentString, NilUsage, ""), Message(ContentOther, NilUsage, "")}
    \cup { Message(ContentList(l), NilUsage, "") : l \in ProbeItemLists }

ProbeToolUseResults == {NilToolUseResult, ToolUseResult(FALSE), ToolUseResult(TRUE)}

\* the parse has not started; a decoded user entry is at hand
InitUser ==
    /\ analysis = NewAnalysis
    /\ pc = "probe"
    /\ uniqueFiles = <<>>
    /\ fileIdx = 1
    /\ allEntries = <<>>
    /\ entriesByUUID = EmptyMap
    /\ entryIdx = 1
    /\ projectNameCache = EmptyMap
    /\ result = "none"
    /\ input = <<>>
    /\ linesRead = 0
    /\ \E m \in ProbeMessages, tur \in ProbeToolUseResults :
         probe = [fn |-> "processUserEntry",
                  entry |-> Entry("u1", "", "user", TsZ(T1), 0, m, tur),
                  done |-> FALSE]

\* p.processUserEntry(entry, analysis)
UserCall ==
    /\ pc = "probe"
    /\ probe.fn = "processUserEntry"
    /\ ~probe.done
    /\ analysis' = processUserEntry(probe.entry, analysis)
    /\ probe' = [probe EXCEPT !.done = TRUE]
    /\ UNCHANGED <<pc, uniqueFiles, fileIdx, allEntries, entriesByUUID,
                   entryIdx, projectNameCache, result, input, linesRead>>

NextUser == UserCall

SpecUser == InitUser /\ [][NextUser]_vars

\* ------------------------------------- the cost bookkeeping in float64

\* what extractCostAndTokens returns: nothing, a legacy cost, or the cost of
\* a usage record with its model and tokens; costs exact in the mantissa
ProbeCostData ==
    { [cost |-> 0, model |-> "", tokens |-> tokenData(0, 0, 0, 0)],
      [cost |-> 1, model |-> "", tokens |-> tokenData(0, 0, 0, 0)],
      [cost |-> 2, model |-> "claude-opus-4-20250514",
       tokens |-> tokenData(2, 1, 3, 1)],
      [cost |-> 2 ^ FloatBits, model |-> "claude-sonnet-4-20250514",
       tokens |-> tokenData(1, 0, 0, 2)] }

\* the files entries come from: two sessions of one project, one of another
ProbeFoldFiles == {AllFiles[1], AllFiles[2], File("-p2", "s3")}

\* ParseAll has found files; no entry folded yet
InitFold ==
    /\ analysis = NewAnalysis
    /\ pc = "probe"
    /\ uniqueFiles = <<>>
    /\ fileIdx = 1
    /\ allEntries = <<>>
    /\ entriesByUUID = EmptyMap
    /\ entryIdx = 1
    /\ projectNameCache = EmptyMap
    /\ result = "none"
    /\ input = <<>>
    /\ linesRead = 0
    /\ probe = [fn |-> "fold", folded |-> <<>>]

\* one assistant entry of some file folded
FoldCall ==
    /\ pc = "probe"
    /\ probe.fn = "fold"
    /\ result = "none"
    /\ Len(probe.folded) < MaxFolds
    /\ \E filename \in ProbeFoldFiles, ct \in ProbeCostData :
         /\ analysis' = processAssistantEntryFloat(ct, analysis,
                                                   extractProjectName(filename),
                                                   sessionIDOf(filename), T2)
         /\ probe' = [probe EXCEPT !.folded =
                         Append(@, [file |-> filename, ct |-> ct])]
    /\ UNCHANGED <<pc, uniqueFiles, fileIdx, allEntries, entriesByUUID,
                   entryIdx, projectNameCache, result, input, linesRead>>

\* every file done: calculateTotals, ranging over the sessions in some order
FoldTotalsCall ==
    /\ pc = "probe"
    /\ probe.fn = "fold"
    /\ result = "none"
    /\ \E order \in IterationOrders(analysis.Sessions) :
         analysis' = calculateTotalsOrdered(analysis, order)
    /\ result' = "analysis"
    /\ UNCHANGED <<pc, uniqueFiles, fileIdx, allEntries, entriesByUUID,
                   entryIdx, projectNameCache, input, linesRead, probe>>

NextFold ==
    \/ FoldCall
    \/ FoldTotalsCall

SpecFold == InitFold /\ [][NextFold]_vars

\* ------------------------------------- calculateTotals on its own

\* session costs that are exact in the shortened mantissa
ProbeCosts == {0, 1, 2, 2 ^ FloatBits, 2 ^ (FloatBits + 1)}

ProbeSessionIDs == <<"s1", "s2", "s3">>

\* a session as the file loop leaves it: one assistant entry with a flat cost
ProbeSession(c) ==
    [NewSession EXCEPT !.MessageCount = 1, !.StartTime = T2, !.EndTime = T2,
                       !.Cost = c, !.InputTokens = 2, !.CacheReadTokens = 3]

\* the file loop is over: three sessions are in the map, totals not yet taken
InitTotals ==
    /\ \E c \in [1..Len(ProbeSessionIDs) -> ProbeCosts] :
         /\ analysis =
               [NewAnalysis EXCEPT
                   !.Sessions = [s \in {ProbeSessionIDs[i] : i \in 1..Len(ProbeSessionIDs)} |->
                                    ProbeSession(c[CHOOSE i \in 1..Len(ProbeSessionIDs) :
                                                             ProbeSessionIDs[i] = s])]]
         /\ probe = [fn |-> "calculateTotals", done |-> FALSE, before |-> analysis]
    /\ pc = "probe"
    /\ uniqueFiles = <<>>
    /\ fileIdx = 1
    /\ allEntries = <<>>
    /\ entriesByUUID = EmptyMap
    /\ entryIdx = 1
    /\ projectNameCache = EmptyMap
    /\ result = "none"
    /\ input = <<>>
    /\ linesRead = 0

\* p.calculateTotals(analysis): range visits the sessions in some order
TotalsCall ==
    /\ pc = "probe"
    /\ probe.fn = "calculateTotals"
    /\ ~probe.done
    /\ \E order \in IterationOrders(analysis.Sessions) :
         analysis' = calculateTotalsOrdered(analysis, order)
    /\ probe' = [probe EXCEPT !.done = TRUE]
    /\ UNCHANGED <<pc, uniqueFiles, fileIdx, allEntries, entriesByUUID,
                   entryIdx, projectNameCache, result, input, linesRead>>

NextTotals == TotalsCall

SpecTotals == InitTotals /\ [][NextTotals]_vars

\* ------------------------------------- the statistics engine on its own

\* response times in whole seconds, all exact in the shortened mantissa
ProbeDurations == {1, 2, 27, 29}

\* the sequences over S of length at most MaxSamples
SeqsUpTo(S) == UNION { [1..n -> S] : n \in 0..MaxSamples }

\* ascending sample sets, in seconds
ProbeSorted ==
    {s \in SeqsUpTo({Seconds(x) : x \in ProbeDurations}) :
        \A i \in 1..Len(s) - 1 : s[i] <= s[i + 1]}

ProbePercents == {0, 50, 90, 95, 99, 100, 150}

\* a sorted sample set and a percent are at hand, or a finished aggregate
\* with its response times
InitStatistics ==
    /\ pc = "probe"
    /\ uniqueFiles = <<>>
    /\ fileIdx = 1
    /\ allEntries = <<>>
    /\ entriesByUUID = EmptyMap
    /\ entryIdx = 1
    /\ projectNameCache = EmptyMap
    /\ result = "none"
    /\ input = <<>>
    /\ linesRead = 0
    /\ \/ /\ analysis = NewAnalysis
          /\ \E s \in ProbeSorted, p \in ProbePercents :
               probe = [fn |-> "percentile", sorted |-> s, p |-> p,
                        done |-> FALSE, value |-> 0]
       \/ /\ \E rt \in SeqsUpTo(ProbeDurations) :
               analysis = [NewAnalysis EXCEPT !.ResponseTimes = rt]
          /\ probe = [fn |-> "GetResponseTimeStats", done |-> FALSE,
                      stats |-> ZeroResponseTimeStats]

\* percentile(sorted, p)
PercentileCall ==
    /\ pc = "probe"
    /\ probe.fn = "percentile"
    /\ ~probe.done
    /\ probe' = [probe EXCEPT !.done = TRUE,
                              !.value = percentile(probe.sorted, probe.p)]
    /\ UNCHANGED <<analysis, pc, uniqueFiles, fileIdx, allEntries, entriesByUUID,
                   entryIdx, projectNameCache, result, input, linesRead>>

\* s.GetResponseTimeStats()
ResponseTimeStatsCall ==
    /\ pc = "probe"
    /\ probe.fn = "GetResponseTimeStats"
    /\ ~probe.done
    /\ probe' = [probe EXCEPT !.done = TRUE,
                              !.stats = GetResponseTimeStats(analysis)]
    /\ UNCHANGED <<analysis, pc, uniqueFiles, fileIdx, allEntries, entriesByUUID,
                   entryIdx, projectNameCache, result, input, linesRead>>

NextStatistics ==
    \/ PercentileCall
    \/ ResponseTimeStatsCall

SpecStatistics == InitStatistics /\ [][NextStatistics]_vars

\* --------------------------- the statistics engine on a finished aggregate

ProbeProjectNames == <<"/p1", "/p2", "/p3">>

\* the costs of the projects /p1, /p2, ... of a finished aggregate
ProbeProjectCosts == {<<>>, <<10, 30, 20>>, <<10, 10, 20>>, <<20, 20, 10>>}

\* (TotalInputTokens, TotalCacheRead) of a finished aggregate
ProbeTokenTotals ==
    {<<0, 0>>, <<0, 500>>, <<1000, 500>>, <<1000, 1000>>, <<3, 1>>, <<500, 1000>>}

\* the aggregate ParseAll returns for one session per project, project i
\* costing costs[i], the tokens all in the first session
Finished(costs, tokens) ==
    LET n == Len(costs)
        names == {ProbeProjectNames[i] : i \in 1..n}
        at(name) == CHOOSE i \in 1..n : ProbeProjectNames[i] = name
        total == DurationSum(costs)
    IN [NewAnalysis EXCEPT
          !.Projects =
              [name \in names |->
                  [NewProject EXCEPT
                      !.Cost = costs[at(name)], !.Sessions = 1,
                      !.SessionIDs = {name}, !.ActiveDays = {DayKey(T2)},
                      !.InputTokens = IF at(name) = 1 THEN tokens[1] ELSE 0,
                      !.TotalTokens = IF at(name) = 1 THEN tokens[1] ELSE 0,
                      !.CacheReadTokens = IF at(name) = 1 THEN tokens[2] ELSE 0,
                      !.ResponseTimes = IF at(name) = 1 THEN <<29, 2>> ELSE <<>>]],
          !.Sessions =
              [name \in names |->
                  [NewSession EXCEPT
                      !.Cost = costs[at(name)], !.MessageCount = 2,
                      !.StartTime = T2, !.EndTime = T3,
                      !.InputTokens = IF at(name) = 1 THEN tokens[1] ELSE 0,
                      !.TotalTokens = IF at(name) = 1 THEN tokens[1] ELSE 0,
                      !.CacheReadTokens = IF at(name) = 1 THEN tokens[2] ELSE 0]],
          !.HourlyActivity =
              [h \in (IF n = 0 THEN {} ELSE {Hour(T2)}) |->
                  [MessageCount |-> 2 * n, Cost |-> total]],
          !.DailyActivity =
              [day \in (IF n = 0 THEN {} ELSE {DayKey(T2)}) |->
                  [MessageCount |-> 2 * n, Cost |-> total]],
          !.ModelUsage =
              [m \in (IF n = 0 THEN {}
                      ELSE {"claude-opus-4-20250514", "claude-sonnet-4-20250514"}) |-> n],
          !.ResponseTimes = IF n = 0 THEN <<>> ELSE <<29, 2, 27>>,
          !.StartDate = IF n = 0 THEN Now ELSE T2,
          !.EndDate = IF n = 0 THEN ZeroTime ELSE T3,
          !.TotalCost = total,
          !.TotalInputTokens = tokens[1],
          !.TotalCacheRead = tokens[2],
          !.CacheSavings = tokens[2] * 30000 - tokens[2] * 3000]

ProbeLimits == {-1, 0, 2, 3}

\* calculator.New(analysis) on a finished aggregate; no call made yet
InitEngine ==
    /\ pc = "probe"
    /\ uniqueFiles = <<>>
    /\ fileIdx = 1
    /\ allEntries = <<>>
    /\ entriesByUUID = EmptyMap
    /\ entryIdx = 1
    /\ projectNameCache = EmptyMap
    /\ result = "none"
    /\ input = <<>>
    /\ linesRead = 0
    /\ \E costs \in ProbeProjectCosts, tokens \in ProbeTokenTotals :
         /\ costs = <<>> => tokens = <<0, 0>>
         /\ analysis = Finished(costs, tokens)
    /\ probe = [fn |-> "Statistics", calls |-> <<>>]

\* a call of the Statistics object may follow
MayCall == pc = "probe" /\ probe.fn = "Statistics" /\ Len(probe.calls) < MaxCalls

\* the call recorded: the function, its argument, the value it returned
Returned(fn, arg, value) ==
    /\ probe' = [probe EXCEPT !.calls = Append(@, [fn |-> fn, arg |-> arg,
                                                    value |-> <<value>>])]
    /\ UNCHANGED <<analysis, pc, uniqueFiles, fileIdx, allEntries, entriesByUUID,
                   entryIdx, projectNameCache, result, input, linesRead>>

AverageCostPerSessionCall ==
    /\ MayCall
    /\ Returned("GetAverageCostPerSession", 0, GetAverageCostPerSession(analysis))

CacheHitRateCall ==
    /\ MayCall
    /\ Returned("GetCacheHitRate", 0, GetCacheHitRate(analysis))

ResponseTimeStatsAgainCall ==
    /\ MayCall
    /\ Returned("GetResponseTimeStats", 0, GetResponseTimeStats(analysis))

TopProjectsCall ==
    /\ MayCall
    /\ \E limit \in ProbeLimits, order \in IterationOrders(analysis.Projects) :
         Returned("GetTopProjects", limit, GetTopProjects(analysis, order, limit))

HourlyDistributionCall ==
    /\ MayCall
    /\ Returned("GetHourlyDistribution", 0, GetHourlyDistribution(analysis))

DailyTrendCall ==
    /\ MayCall
    /\ Returned("GetDailyTrend", 0, GetDailyTrend(analysis))

ModelDistributionCall ==
    /\ MayCall
    /\ \E order \in IterationOrders(analysis.ModelUsage) :
         Returned("GetModelDistribution", 0, GetModelDistribution(analysis, order))

NextEngine ==
    \/ AverageCostPerSessionCall
    \/ CacheHitRateCall
    \/ ResponseTimeStatsAgainCall
    \/ TopProjectsCall
    \/ HourlyDistributionCall
    \/ DailyTrendCall
    \/ ModelDistributionCall

SpecEngine == InitEngine /\ [][NextEngine]_vars

\* ------------------------- the parse together with calculateTokenCost

InitFoldCost == Init \/ InitCost

NextFoldCost == Next \/ NextCost

SpecFoldCost == InitFoldCost /\ [][NextFoldCost]_vars

\* ------------------------------------------- ParseAll as a function

RECURSIVE scanLoop(_, _)
\* the scan loop of parseFile over the lines of a file
scanLoop(st, lines) ==
    IF lines = <<>> THEN st
    ELSE scanLoop(scanLine(st, Head(lines)), Tail(lines))

RECURSIVE processLoop(_, _, _, _, _, _)
\* the processing loop of parseFile from index k on
processLoop(a, entries, byUUID, k, projectName, sessionID) ==
    IF k > Len(entries) THEN a
    ELSE processLoop(processEntry(a, entries, byUUID, k, projectName, sessionID),
                     entries, byUUID, k + 1, projectName, sessionID)

\* parseFile on one file of the history; a file that failed to open or to
\* scan returns its error before the processing loop
parseFile(a, rec) ==
    IF rec.status # "done" THEN a
    ELSE LET st == scanLoop([allEntries |-> <<>>, entriesByUUID |-> EmptyMap],
                             rec.lines)
         IN processLoop(a, st.allEntries, st.entriesByUUID, 1,
                        extractProjectName(rec.file), sessionIDOf(rec.file))

RECURSIVE parseFiles(_, _)
\* the loop of ParseAll over uniqueFiles
parseFiles(a, recs) ==
    IF recs = <<>> THEN a
    ELSE parseFiles(parseFile(a, Head(recs)), Tail(recs))

\* ParseAll on a non-empty list of files
ParseAll(recs) == calculateTotals(parseFiles(NewAnalysis, recs))

\* ----------------------------------------------------------------- claims

CostReturned == probe.fn = "calculateTokenCost" /\ probe.done

NonNegativeUsage(u) ==
    /\ u.InputTokens >= 0
    /\ u.OutputTokens >= 0
    /\ u.CacheCreationInputTokens >= 0
    /\ u.CacheReadInputTokens >= 0

\* C1: for every usage record (four non-negative token counts) and every
\* model name, calculateTokenCost returns input*r.Input + output*r.Output +
\* cacheWrite*r.CacheWrite + cacheRead*r.CacheRead (each per million), r being
\* the ModelPricing entry of exactly that name, else the default tier
\* 3.0 / 15.0 / 3.75 / 0.30; 1000 input + 500 output tokens cost 0.0525 USD
\* under claude-opus-4-20250514 and 0.0105 USD under an unknown model.
C1_TokenCost ==
    (CostReturned /\ NonNegativeUsage(probe.usage)) =>
        LET u == probe.usage
            known == probe.model \in DOMAIN ModelPricing
            r == IF known THEN ModelPricing[probe.model]
                 ELSE [Input |-> 30000, Output |-> 150000,
                       CacheWrite |-> 37500, CacheRead |-> 3000]
        IN /\ probe.cost = u.InputTokens * r.Input + u.OutputTokens * r.Output
                           + u.CacheCreationInputTokens * r.CacheWrite
                           + u.CacheReadInputTokens * r.CacheRead
           /\ (u = Usage(1000, 500, 0, 0) /\ probe.model = "claude-opus-4-20250514")
                  => probe.cost = 525000000
           /\ (u = Usage(1000, 500, 0, 0) /\ ~known) => probe.cost = 105000000

C1_Witness ==
    /\ CostReturned
    /\ probe.usage = Usage(1000, 500, 200, 1000)
    /\ probe.model = "claude-opus-4-20250514"
    /\ probe.cost = 577500000

\* the entry the processing loop is about to fold, its file's project and session
Processing == pc = "process" /\ entryIdx <= Len(allEntries)

CurrentEntry == allEntries[entryIdx]

CurrentProject == projectNameCache[uniqueFiles[fileIdx]]

CurrentSession == sessionIDOf(uniqueFiles[fileIdx])

\* the loop has just folded allEntries[entryIdx - 1]
Folded == pc = "process" /\ entryIdx > 1

LastFolded == allEntries[entryIdx - 1]

\* field f of the record of m at key k, 0 when there is no record yet
FieldOr0(m, k, f) == IF k \in DOMAIN m THEN m[k][f] ELSE 0

TokenFields ==
    {"InputTokens", "OutputTokens", "CacheReadTokens", "CacheWriteTokens",
     "TotalTokens"}

\* no token counter of any session or project, and no global one, changes
TokensUnchanged ==
    /\ \A k \in DOMAIN analysis'.Sessions : \A f \in TokenFields :
         analysis'.Sessions[k][f] = FieldOr0(analysis.Sessions, k, f)
    /\ \A k \in DOMAIN analysis'.Projects : \A f \in TokenFields :
         analysis'.Projects[k][f] = FieldOr0(analysis.Projects, k, f)
    /\ analysis'.TotalInputTokens = analysis.TotalInputTokens
    /\ analysis'.TotalOutputTokens = analysis.TotalOutputTokens
    /\ analysis'.TotalCacheRead = analysis.TotalCacheRead
    /\ analysis'.TotalCacheWrite = analysis.TotalCacheWrite

LegacyEntry(e) == e.Type = "assistant" /\ e.CostUSD > 0

\* folding a legacy-cost entry: what it returns and what it adds
LegacyFold ==
    LET e == CurrentEntry
        t == e.ParsedTimestamp
    IN /\ extractCostAndTokens(e) =
            [cost |-> e.CostUSD, model |-> "", tokens |-> tokenData(0, 0, 0, 0)]
       /\ analysis'.Sessions[CurrentSession].Cost =
            FieldOr0(analysis.Sessions, CurrentSession, "Cost") + e.CostUSD
       /\ analysis'.Projects[CurrentProject].Cost =
            FieldOr0(analysis.Projects, CurrentProject, "Cost") + e.CostUSD
       /\ analysis'.HourlyActivity[Hour(t)].Cost =
            FieldOr0(analysis.HourlyActivity, Hour(t), "Cost") + e.CostUSD
       /\ analysis'.DailyActivity[DayKey(t)].Cost =
            FieldOr0(analysis.DailyActivity, DayKey(t), "Cost") + e.CostUSD
       /\ TokensUnchanged
       /\ analysis'.ModelUsage = analysis.ModelUsage

\* C2: when an assistant entry carries a legacy cost greater than zero,
\* extractCostAndTokens returns exactly that cost with an empty model name and
\* an all-zero token breakdown, even if the entry also carries usage and a
\* model; folding it adds the legacy cost to its session, project, hour bucket
\* and day bucket, adds nothing to any token counter and nothing to the
\* model-usage map.
C2_LegacyCost ==
    [][(Processing /\ LegacyEntry(CurrentEntry) /\ entryIdx' = entryIdx + 1)
         => LegacyFold]_vars

C2_Witness ==
    /\ Folded
    /\ LegacyEntry(LastFolded)
    /\ ~LastFolded.Message.isNil
    /\ ~LastFolded.Message.Usage.isNil
    /\ LastFolded.Message.Usage.InputTokens > 0
    /\ LastFolded.Message.Model \in DOMAIN ModelPricing
    /\ analysis.Sessions[CurrentSession].Cost = LastFolded.CostUSD
    /\ analysis.Sessions[CurrentSession].InputTokens = 0
    /\ analysis.ModelUsage = EmptyMap

\* every cost accumulator of the aggregate is non-negative
CostsNonNegative ==
    /\ \A k \in DOMAIN analysis.Sessions : analysis.Sessions[k].Cost >= 0
    /\ \A k \in DOMAIN analysis.Projects : analysis.Projects[k].Cost >= 0
    /\ \A k \in DOMAIN analysis.HourlyActivity : analysis.HourlyActivity[k].Cost >= 0
    /\ \A k \in DOMAIN analysis.DailyActivity : analysis.DailyActivity[k].Cost >= 0
    /\ analysis.TotalCost >= 0

\* the cost returned is non-negative, no smaller than without the cache
\* reads, and its input term is the input tokens at the input rate
CostMonotone ==
    LET u == probe.usage
        r == IF probe.model \in DOMAIN ModelPricing
             THEN ModelPricing[probe.model] ELSE DefaultPricing
        noRead == calculateTokenCost([u EXCEPT !.CacheReadInputTokens = 0], probe.model)
        noInput == calculateTokenCost([u EXCEPT !.InputTokens = 0], probe.model)
    IN /\ probe.cost >= 0
       /\ probe.cost >= noRead
       /\ probe.cost - noInput = IF u.InputTokens > 0 THEN u.InputTokens * r.Input ELSE 0

\* C3: for all token counts and any model the computed cost is >= 0, and
\* cache-read tokens never reduce the input-token contribution: the cost with
\* cacheRead = c is never less than the cost with cacheRead = 0 and the input
\* term is input * rate.Input whatever c is; consequently every cost
\* accumulator (session, project, hourly, daily, total) is non-negative in
\* every reachable state.
C3_CostNonNegative ==
    /\ CostsNonNegative
    /\ CostReturned => CostMonotone

C3_Witness ==
    /\ result = "analysis"
    /\ analysis.TotalCost > 0
    /\ \E i \in 1..Len(input) : \E k \in 1..Len(input[i].lines) :
         LET e == input[i].lines[k].entry
         IN /\ input[i].status = "done"
            /\ e.Type = "assistant"
            /\ ~e.Message.isNil
            /\ ~e.Message.Usage.isNil
            /\ e.Message.Usage.CacheReadInputTokens > e.Message.Usage.InputTokens
            /\ e.Message.Usage.InputTokens > 0
            /\ e.CostUSD = 0
            /\ parseTimestamp(e.Timestamp).t >= cutoffTime

\* a line that decodes, whose timestamp is well-formed and lies before the cutoff
PreCutoff(line) ==
    /\ ~line.malformed
    /\ line.entry.Timestamp.form \in {"Z", "offset"}
    /\ line.entry.Timestamp.wall - line.entry.Timestamp.off < cutoffTime

\* the files of the history with their pre-cutoff lines removed
WithoutPreCutoff(recs) ==
    [i \in 1..Len(recs) |->
        [recs[i] EXCEPT !.lines = SelectSeq(@, LAMBDA l : ~PreCutoff(l))]]

\* C4: an entry whose timestamp is before the lookback cutoff is never added
\* to any aggregate: the CostAnalysis ParseAll returns is identical to the one
\* produced from the same files with all pre-cutoff entries removed.
C4_CutoffSkipped ==
    result = "analysis" => analysis = ParseAll(WithoutPreCutoff(input))

C4_Witness ==
    /\ result = "analysis"
    /\ analysis.TotalCost > 0
    /\ \E i \in 1..Len(input) :
         /\ input[i].status = "done"
         /\ \E k \in 1..Len(input[i].lines) :
              /\ PreCutoff(input[i].lines[k])
              /\ input[i].lines[k].entry.Type = "assistant"
              /\ input[i].lines[k].entry.CostUSD > 0
         /\ \E k \in 1..Len(input[i].lines) :
              /\ PreCutoff(input[i].lines[k])
              /\ input[i].lines[k].entry.Type = "user"

\* the user entry a reply names as its parent, when it resolves to one
HasUserParent(e) ==
    /\ e.ParentUUID # ""
    /\ e.ParentUUID \in DOMAIN entriesByUUID
    /\ allEntries[entriesByUUID[e.ParentUUID]].Type = "user"

\* the timestamp difference of a reply to its parent
Latency(e) == e.ParsedTimestamp - allEntries[entriesByUUID[e.ParentUUID]].ParsedTimestamp

InRange(d) == 0 < d /\ d < 300

SamplesInRange ==
    /\ \A k \in 1..Len(analysis.ResponseTimes) : InRange(analysis.ResponseTimes[k])
    /\ \A p \in DOMAIN analysis.Projects :
         \A k \in 1..Len(analysis.Projects[p].ResponseTimes) :
            InRange(analysis.Projects[p].ResponseTimes[k])

\* a reply out of range leaves every list as it was, and the rest of the
\* entry is folded: message count, and the cost into the session
OutlierDiscarded ==
    (/\ Processing
     /\ CurrentEntry.Type = "assistant"
     /\ HasUserParent(CurrentEntry)
     /\ ~InRange(Latency(CurrentEntry))
     /\ entryIdx' = entryIdx + 1)
    => /\ analysis'.ResponseTimes = analysis.ResponseTimes
       /\ \A p \in DOMAIN analysis'.Projects :
            analysis'.Projects[p].ResponseTimes =
               IF p \in DOMAIN analysis.Projects
               THEN analysis.Projects[p].ResponseTimes ELSE <<>>
       /\ pc' = "process"
       /\ analysis'.Sessions[CurrentSession].MessageCount =
            FieldOr0(analysis.Sessions, CurrentSession, "MessageCount") + 1
       /\ analysis'.Sessions[CurrentSession].Cost =
            FieldOr0(analysis.Sessions, CurrentSession, "Cost")
            + extractCostAndTokens(CurrentEntry).cost

\* C5: in every reachable state every duration in the global response-time
\* list and in every project's response-time list is strictly greater than 0
\* and strictly less than 5 minutes; a reply whose timestamp difference to its
\* parent is <= 0 or >= 300 s is discarded without error and the rest of the
\* entry is still processed.
C5_ResponseTimeRange == []SamplesInRange /\ [][OutlierDiscarded]_vars

C5_Witness ==
    /\ Folded
    /\ LastFolded.Type = "assistant"
    /\ HasUserParent(LastFolded)
    /\ Latency(LastFolded) = 300
    /\ LastFolded.CostUSD > 0
    /\ analysis.Sessions[CurrentSession].Cost > 0
    /\ analysis.ResponseTimes = <<1>>

RECURSIVE SumLen(_, _)
\* the total length of the response-time lists of the projects in ks
SumLen(m, ks) ==
    IF ks = {} THEN 0
    ELSE LET k == CHOOSE x \in ks : TRUE
         IN Len(m[k].ResponseTimes) + SumLen(m, ks \ {k})

\* C6: every response time recorded for an assistant entry is recorded into
\* both the global list and the list of the project that owns the entry's
\* file, so the sum of the lengths of all projects' response-time lists equals
\* the length of the global list (including for the first assistant entry
\* seen for a project).
C6_BothLists ==
    SumLen(analysis.Projects, DOMAIN analysis.Projects) = Len(analysis.ResponseTimes)

\* a line that decodes, with a well-formed timestamp at or after the cutoff
Qualifies(line) ==
    /\ ~line.malformed
    /\ line.entry.Timestamp.form \in {"Z", "offset"}
    /\ line.entry.Timestamp.wall - line.entry.Timestamp.off >= cutoffTime

InstantOf(line) == line.entry.Timestamp.wall - line.entry.Timestamp.off

\* the lines of file i of the history that the processing loop has folded
FoldedFrom(i) ==
    LET q == SelectSeq(input[i].lines, Qualifies)
    IN IF input[i].status = "done" THEN q
       ELSE IF input[i].status = "open" /\ i = Len(input) /\ pc = "process"
       THEN SubSeq(q, 1, entryIdx - 1)
       ELSE <<>>

\* the tool_result items in the list-shaped content of a user entry
ToolResultItems(line) ==
    LET e == line.entry
    IN IF e.Type = "user" /\ ~e.Message.isNil /\ e.Message.Content.shape = "list"
       THEN Cardinality({k \in 1..Len(e.Message.Content.items) :
                            /\ e.Message.Content.items[k].isMap
                            /\ e.Message.Content.items[k].type = "tool_result"})
       ELSE 0

RECURSIVE SumItems(_)
SumItems(lines) ==
    IF lines = <<>> THEN 0 ELSE ToolResultItems(Head(lines)) + SumItems(Tail(lines))

RECURSIVE SumItemsUpTo(_)
SumItemsUpTo(i) == IF i = 0 THEN 0 ELSE SumItems(FoldedFrom(i)) + SumItemsUpTo(i - 1)

\* C7: a tool-result content item is counted in exactly one of
\* accepted/rejected: after folding any sequence of entries Accepted + Rejected
\* equals the number of content items of type tool_result found in list-shaped
\* content of qualifying user entries, and Accepted >= 0 and Rejected >= 0 in
\* every reachable state.
C7_CountedOnce ==
    /\ analysis.ToolUse.Accepted + analysis.ToolUse.Rejected = SumItemsUpTo(Len(input))
    /\ analysis.ToolUse.Accepted >= 0
    /\ analysis.ToolUse.Rejected >= 0

C7_Witness ==
    /\ result = "analysis"
    /\ analysis.ToolUse.Accepted = 2
    /\ analysis.ToolUse.Rejected = 1
    /\ Len(input) = 2

\* the rejection indicators, on the entry and on one of its items
Interrupted(e) == ~e.ToolUseResult.isNil /\ e.ToolUseResult.Interrupted

SaysRejected(item) ==
    /\ item.textIsString
    /\ \E k \in 1..Len(item.words) :
         item.words[k] \in {"user doesn't want to proceed", "tool use was rejected"}

IsRejected(e, item) == Interrupted(e) \/ SaysRejected(item) \/ item.isError

\* the tool_result items of the entry's content array, by position
ToolResults(e) ==
    IF ~e.Message.isNil /\ e.Message.Content.shape = "list"
    THEN {k \in 1..Len(e.Message.Content.items) :
            /\ e.Message.Content.items[k].isMap
            /\ e.Message.Content.items[k].type = "tool_result"}
    ELSE {}

\* C8: a tool-result item of a user entry is classified as rejected if and
\* only if the entry's tool-result record reports interrupted = true, or the
\* item's textual content contains the phrase "user doesn't want to proceed"
\* or "tool use was rejected", or the item's is_error flag is true; otherwise
\* it is classified as accepted.
C8_RejectedIff ==
    (probe.fn = "processUserEntry" /\ probe.done) =>
        LET e == probe.entry
            items == e.Message.Content.items
        IN /\ analysis.ToolUse.Rejected =
                Cardinality({k \in ToolResults(e) : IsRejected(e, items[k])})
           /\ analysis.ToolUse.Accepted =
                Cardinality({k \in ToolResults(e) : ~IsRejected(e, items[k])})

C8_Witness ==
    /\ probe.fn = "processUserEntry"
    /\ probe.done
    /\ ~Interrupted(probe.entry)
    /\ Len(probe.entry.Message.Content.items) = 2
    /\ probe.entry.Message.Content.items[1].type = "tool_result"
    /\ ~probe.entry.Message.Content.items[1].textIsString
    /\ probe.entry.Message.Content.items[1].words = Rejection
    /\ ~probe.entry.Message.Content.items[1].isError
    /\ probe.entry.Message.Content.items[2].isError
    /\ analysis.ToolUse = [Accepted |-> 1, Rejected |-> 1]

\* an assistant entry with no legacy cost and no message, no usage, or the
\* synthetic model
NoCostEntry(e) ==
    /\ e.Type = "assistant"
    /\ ~(e.CostUSD > 0)
    /\ (e.Message.isNil \/ e.Message.Usage.isNil \/ e.Message.Model = "<synthetic>")

YieldsNothing(e) ==
    /\ e.Type = "assistant"
    /\ extractCostAndTokens(e).cost = 0
    /\ extractCostAndTokens(e).model = ""

Min(x, y) == IF x < y THEN x ELSE y

Max(x, y) == IF x > y THEN x ELSE y

\* folding an entry without cost data: the cost side is left alone, the
\* session and project tracking is done, at most one response time is added
NoCostFold ==
    LET e == CurrentEntry
        t == e.ParsedTimestamp
        s == CurrentSession
        p == CurrentProject
        known == s \in DOMAIN analysis.Sessions
    IN /\ analysis'.ModelUsage = analysis.ModelUsage
       /\ analysis'.HourlyActivity = analysis.HourlyActivity
       /\ analysis'.DailyActivity = analysis.DailyActivity
       /\ TokensUnchanged
       /\ \A k \in DOMAIN analysis'.Sessions :
            analysis'.Sessions[k].Cost = FieldOr0(analysis.Sessions, k, "Cost")
       /\ \A k \in DOMAIN analysis'.Projects :
            analysis'.Projects[k].Cost = FieldOr0(analysis.Projects, k, "Cost")
       /\ analysis'.TotalCost = analysis.TotalCost
       /\ analysis'.Sessions[s].MessageCount =
            FieldOr0(analysis.Sessions, s, "MessageCount") + 1
       /\ analysis'.Sessions[s].StartTime =
            IF known THEN Min(analysis.Sessions[s].StartTime, t) ELSE t
       /\ analysis'.Sessions[s].EndTime =
            IF known THEN Max(analysis.Sessions[s].EndTime, t) ELSE t
       /\ analysis'.Projects[p].SessionIDs =
            (IF p \in DOMAIN analysis.Projects
             THEN analysis.Projects[p].SessionIDs ELSE {}) \cup {s}
       /\ analysis'.Projects[p].ActiveDays =
            (IF p \in DOMAIN analysis.Projects
             THEN analysis.Projects[p].ActiveDays ELSE {}) \cup {DayKey(t)}
       /\ \/ analysis'.ResponseTimes = analysis.ResponseTimes
          \/ /\ HasUserParent(e)
             /\ analysis'.ResponseTimes = Append(analysis.ResponseTimes, Latency(e))

\* C9: an assistant entry that yields zero cost and an empty model name (no
\* legacy cost and either no message, no usage, or the model "<synthetic>")
\* performs no cost-side updates: model-usage, hourly and daily buckets, and
\* every cost and token field of its session and project are unchanged; it
\* still increments the session's message count, updates the session's time
\* bounds and the project's session/day sets, and may record a response time.
C9_NoCostNoUpdate ==
    [][(Processing /\ entryIdx' = entryIdx + 1)
         => /\ NoCostEntry(CurrentEntry) => YieldsNothing(CurrentEntry)
            /\ YieldsNothing(CurrentEntry) => NoCostFold]_vars

C9_Witness ==
    /\ Folded
    /\ NoCostEntry(LastFolded)
    /\ LastFolded.Message.isNil
    /\ analysis.ResponseTimes = <<299>>
    /\ analysis.Sessions[CurrentSession].MessageCount = 2
    /\ analysis.Sessions[CurrentSession].Cost > 0
    /\ Cardinality(DOMAIN analysis.HourlyActivity) = 1

\* the indices of the history's files whose base name is the session id s
FilesOf(s) == {i \in 1..Len(input) : sessionIDOf(input[i].file) = s}

\* the instants of the assistant entries folded so far for session s
AssistantInstants(s) ==
    UNION { LET q == FoldedFrom(i)
            IN {InstantOf(q[k]) :
                   k \in {j \in 1..Len(q) : q[j].entry.Type = "assistant"}} :
            i \in FilesOf(s) }

RECURSIVE AssistantCount(_, _)
\* the number of assistant entries folded so far from the files in is
AssistantCount(s, is) ==
    IF is = {} THEN 0
    ELSE LET i == CHOOSE x \in is : TRUE
         IN Len(SelectSeq(FoldedFrom(i), LAMBDA l : l.entry.Type = "assistant"))
            + AssistantCount(s, is \ {i})

C11_TotalTokens ==
    /\ \A s \in DOMAIN analysis.Sessions :
         analysis.Sessions[s].TotalTokens =
             analysis.Sessions[s].InputTokens + analysis.Sessions[s].OutputTokens
    /\ \A n \in DOMAIN analysis.Projects :
         analysis.Projects[n].TotalTokens =
             analysis.Projects[n].InputTokens + analysis.Projects[n].OutputTokens

\* two entries with cache reads and cache writes folded into one session
C11_Witness ==
    /\ Folded
    /\ CurrentSession \in DOMAIN analysis.Sessions
    /\ analysis.Sessions[CurrentSession].CacheReadTokens = 6
    /\ analysis.Sessions[CurrentSession].CacheWriteTokens = 2
    /\ analysis.Sessions[CurrentSession].TotalTokens = 6
    /\ analysis.Projects[CurrentProject].CacheReadTokens = 6
    /\ analysis.Projects[CurrentProject].TotalTokens = 6

RECURSIVE SessionSum(_, _)
\* the sum of field f over the session records with keys in ks
SessionSum(ks, f) ==
    IF ks = {} THEN 0
    ELSE LET k == CHOOSE x \in ks : TRUE
         IN analysis.Sessions[k][f] + SessionSum(ks \ {k}, f)

\* a qualifying assistant line with usage under a priced model and some
\* positive token count
HasTokenUsage(line) ==
    /\ Qualifies(line)
    /\ line.entry.Type = "assistant"
    /\ ~line.entry.Message.isNil
    /\ ~line.entry.Message.Usage.isNil
    /\ line.entry.Message.Model # "<synthetic>"
    /\ \/ line.entry.Message.Usage.InputTokens > 0
       \/ line.entry.Message.Usage.OutputTokens > 0
       \/ line.entry.Message.Usage.CacheCreationInputTokens > 0
       \/ line.entry.Message.Usage.CacheReadInputTokens > 0

\* some parsed file of the history holds a line with token usage
SomeTokenUsage ==
    \E i \in 1..Len(input) :
        /\ input[i].status = "done"
        /\ \E k \in 1..Len(input[i].lines) : HasTokenUsage(input[i].lines[k])

AssistantLinesOf(i) ==
    IF input[i].status = "done"
    THEN SelectSeq(input[i].lines,
                   LAMBDA l : Qualifies(l) /\ l.entry.Type = "assistant")
    ELSE <<>>

\* the files of the history that belong to project n and hold a qualifying
\* assistant entry
ActiveFilesOf(n) ==
    {i \in 1..Len(input) :
        extractProjectName(input[i].file) = n /\ AssistantLinesOf(i) # <<>>}

\* the local calendar days of the qualifying assistant entries of project n
DaysOf(n) ==
    UNION { {DayKey(InstantOf(AssistantLinesOf(i)[k])) :
                k \in 1..Len(AssistantLinesOf(i))} : i \in ActiveFilesOf(n) }

\* C13: for every project, after ParseAll, Sessions equals the number of
\* distinct session identifiers of files of that project containing at least
\* one qualifying assistant entry, and ActiveDays is exactly the set of
\* distinct local calendar days on which the project has a qualifying
\* assistant entry, with or without cost; a repeated session or day does not
\* change either count.
C13_ProjectSets ==
    result = "analysis" =>
        /\ DOMAIN analysis.Projects =
              {extractProjectName(input[i].file) :
                  i \in {j \in 1..Len(input) : AssistantLinesOf(j) # <<>>}}
        /\ \A n \in DOMAIN analysis.Projects :
              /\ analysis.Projects[n].Sessions =
                    Cardinality({sessionIDOf(input[i].file) : i \in ActiveFilesOf(n)})
              /\ analysis.Projects[n].ActiveDays = DaysOf(n)

\* one project, two session files, three assistant entries on two days, the
\* later day carried by an entry without cost
C13_Witness ==
    /\ result = "analysis"
    /\ DOMAIN analysis.Projects = {"/p1"}
    /\ analysis.Projects["/p1"].Sessions = 2
    /\ Cardinality(analysis.Projects["/p1"].ActiveDays) = 2
    /\ Cardinality(DOMAIN analysis.DailyActivity) = 1
    /\ Len(AssistantLinesOf(1)) + Len(AssistantLinesOf(2)) = 3

WithoutFailed(recs) == SelectSeq(recs, LAMBDA r : r.status = "done")

\* every file of the glob result has been tried, in order
AllFilesTried ==
    /\ Len(input) = Len(uniqueFiles)
    /\ \A i \in 1..Len(input) : input[i].file = uniqueFiles[i]

C15_WitnessOpen ==
    /\ result = "analysis"
    /\ Len(input) = 2
    /\ input[1].status = "openFailed"
    /\ input[2].status = "done"
    /\ analysis.TotalCost > 0

\* C16: when zero matching files are found, ParseAll returns ErrNoJSONLFiles
\* and no analysis, and neither parseFile nor calculateTotals runs; when at
\* least one file is found, ParseAll returns an analysis and no error, even
\* if every file fails to parse.
C16_NoFilesError ==
    /\ uniqueFiles = <<>> =>
          /\ pc \in {"start", "done"}
          /\ result \in {"none", "ErrNoJSONLFiles"}
          /\ input = <<>>
          /\ linesRead = 0
          /\ analysis = NewAnalysis
    /\ pc = "done" =>
          IF uniqueFiles = <<>> THEN result = "ErrNoJSONLFiles"
          ELSE result = "analysis"
    /\ result = "ErrNoJSONLFiles" => (pc = "done" /\ uniqueFiles = <<>>)
    /\ result = "analysis" => (pc = "done" /\ uniqueFiles # <<>>)

\* the glob found nothing and ParseAll has returned
C16_Witness ==
    /\ pc = "done"
    /\ uniqueFiles = <<>>
    /\ result = "ErrNoJSONLFiles"

\* two files found, neither could be parsed, an empty analysis returned
C16_WitnessAllFail ==
    /\ result = "analysis"
    /\ Len(input) = 2
    /\ input[1].status = "openFailed"
    /\ input[2].status = "scanFailed"
    /\ analysis.Sessions = EmptyMap
    /\ analysis.TotalCost = 0

\* a line the scan loop skips as unreadable: malformed JSON, or a timestamp
\* that is empty or does not parse
Unreadable(line) ==
    line.malformed \/ line.entry.Timestamp.form \in {"empty", "bad"}

\* the files of the history with their unreadable lines deleted
WithoutUnreadable(recs) ==
    [i \in 1..Len(recs) |->
        [recs[i] EXCEPT !.lines = SelectSeq(@, LAMBDA l : ~Unreadable(l))]]

\* the lines of the file being scanned that are readable and not before the
\* cutoff
StoredLines ==
    IF pc \in {"scan", "process"}
    THEN SelectSeq(input[Len(input)].lines, Qualifies)
    ELSE <<>>

\* C17: a line that is malformed JSON, or whose timestamp is empty or
\* unparseable, is skipped without error and without entering the
\* correlation index, and does not change how the other lines of the file
\* are folded: the aggregate equals the one obtained from the file with that
\* line deleted.
C17_BadLineSkipped ==
    /\ result = "analysis" => analysis = ParseAll(WithoutUnreadable(input))
    /\ LET stored == StoredLines
       IN /\ Len(allEntries) = Len(stored)
          /\ \A k \in 1..Len(allEntries) :
                /\ allEntries[k].UUID = stored[k].entry.UUID
                /\ allEntries[k].ParsedTimestamp = InstantOf(stored[k])
    /\ \A u \in DOMAIN entriesByUUID :
          /\ entriesByUUID[u] \in 1..Len(allEntries)
          /\ allEntries[entriesByUUID[u]].UUID = u

\* a parsed file holding a line with an empty timestamp and one with a
\* malformed timestamp around an assistant entry that carries cost
C17_Witness ==
    /\ result = "analysis"
    /\ analysis.TotalCost > 0
    /\ analysis.ToolUse.Rejected = 0
    /\ \E i \in 1..Len(input) :
         /\ input[i].status = "done"
         /\ Len(input[i].lines) = 3
         /\ input[i].lines[1].entry.Timestamp.form = "empty"
         /\ input[i].lines[1].entry.CostUSD > 0
         /\ Qualifies(input[i].lines[2])
         /\ input[i].lines[3].entry.Timestamp.form = "bad"

\* a parsed file holding a line of malformed JSON before a qualifying entry
C17_WitnessJSON ==
    /\ result = "analysis"
    /\ analysis.TotalCost > 0
    /\ \E i \in 1..Len(input) :
         /\ input[i].status = "done"
         /\ Len(input[i].lines) >= 2
         /\ input[i].lines[1].malformed
         /\ Qualifies(input[i].lines[2])

TotalsReturned == probe.fn = "calculateTotals" /\ probe.done

\* C18: re-running the pipeline on an identical, unchanged input set
\* produces identical aggregate totals: TotalCost and the token totals do
\* not depend on the order in which the session map is iterated.
C18_OrderIndependent ==
    TotalsReturned =>
        \A order \in IterationOrders(probe.before.Sessions) :
            LET again == calculateTotalsOrdered(probe.before, order)
            IN /\ again.TotalCost = analysis.TotalCost
               /\ again.TotalInputTokens = analysis.TotalInputTokens
               /\ again.TotalCacheRead = analysis.TotalCacheRead

\* the integer totals alone do not depend on the iteration order
C18_TokenTotalsIndependent ==
    TotalsReturned =>
        \A order \in IterationOrders(probe.before.Sessions) :
            LET again == calculateTotalsOrdered(probe.before, order)
            IN /\ again.TotalInputTokens = analysis.TotalInputTokens
               /\ again.TotalOutputTokens = analysis.TotalOutputTokens
               /\ again.TotalCacheRead = analysis.TotalCacheRead
               /\ again.TotalCacheWrite = analysis.TotalCacheWrite
               /\ again.CacheSavings = analysis.CacheSavings

PercentileReturned == probe.fn = "percentile" /\ probe.done

\* C19: for any non-empty ascending-sorted sample set, percentile(samples, 0)
\* returns the minimum and percentile(samples, 100) the maximum; for an
\* empty set percentile returns 0, and for a single sample it returns that
\* sample for every p.
C19_PercentileEnds ==
    PercentileReturned =>
        /\ (Len(probe.sorted) > 0 /\ probe.p = 0) => probe.value = probe.sorted[1]
        /\ (Len(probe.sorted) > 0 /\ probe.p = 100) =>
              probe.value = probe.sorted[Len(probe.sorted)]
        /\ Len(probe.sorted) = 0 => probe.value = 0
        /\ Len(probe.sorted) = 1 => probe.value = probe.sorted[1]

\* the minimum of three distinct samples returned for p = 0
C19_Witness ==
    /\ PercentileReturned
    /\ probe.p = 0
    /\ probe.sorted = <<Seconds(2), Seconds(27), Seconds(29)>>
    /\ probe.value = Seconds(2)

\* the maximum of three distinct samples returned for p = 100
C19_WitnessMax ==
    /\ PercentileReturned
    /\ probe.p = 100
    /\ probe.sorted = <<Seconds(2), Seconds(27), Seconds(29)>>
    /\ probe.value = Seconds(29)

StatsReturned == probe.fn = "GetResponseTimeStats" /\ probe.done

\* C20: percentile(sorted, p) for 0 <= p <= 100 interpolates linearly at
\* index (p/100)*(n-1); its result always lies between the minimum and the
\* maximum sample and is non-decreasing in p, so that
\* Min <= P50 <= P90 <= P95 <= P99 <= Max in GetResponseTimeStats.
C20_PercentilesOrdered ==
    /\ StatsReturned =>
          /\ probe.stats.Min <= probe.stats.P50
          /\ probe.stats.P50 <= probe.stats.P90
          /\ probe.stats.P90 <= probe.stats.P95
          /\ probe.stats.P95 <= probe.stats.P99
          /\ probe.stats.P99 <= probe.stats.Max
    /\ (PercentileReturned /\ probe.p <= 100 /\ Len(probe.sorted) > 0) =>
          /\ probe.sorted[1] <= probe.value
          /\ probe.value <= probe.sorted[Len(probe.sorted)]

\* the recorded calls of function fn
CallsOf(fn) == {i \in 1..Len(probe.calls) : probe.calls[i].fn = fn}

\* what call i returned
ValueOf(i) == probe.calls[i].value[1]

EngineRunning == probe.fn = "Statistics"

\* C21: GetTopProjects(limit) returns project summaries in non-increasing
\* order of cost; with limit <= 0 or limit >= the number of projects it
\* returns every project exactly once; with 0 < limit < number of projects it
\* returns exactly the first limit of that ordering, so no returned project
\* costs less than an omitted one.
C21_TopProjects ==
    EngineRunning =>
        \A i \in CallsOf("GetTopProjects") :
            LET top == ValueOf(i)
                limit == probe.calls[i].arg
                n == Cardinality(DOMAIN analysis.Projects)
                names == {top[k].Name : k \in 1..Len(top)}
            IN /\ \A k \in 1..Len(top) - 1 : top[k].Cost >= top[k + 1].Cost
               /\ \A k \in 1..Len(top) :
                     /\ top[k].Name \in DOMAIN analysis.Projects
                     /\ top[k].Cost = analysis.Projects[top[k].Name].Cost
               /\ Cardinality(names) = Len(top)
               /\ (limit <= 0 \/ limit >= n) => names = DOMAIN analysis.Projects
               /\ (0 < limit /\ limit < n) =>
                     /\ Len(top) = limit
                     /\ \A k \in 1..Len(top) :
                           \A o \in DOMAIN analysis.Projects \ names :
                               top[k].Cost >= analysis.Projects[o].Cost

\* limit 2 on costs 10, 30, 20 returns the projects costing 30 and 20
C21_Witness ==
    /\ EngineRunning
    /\ Len(probe.calls) = 1
    /\ probe.calls[1].fn = "GetTopProjects"
    /\ probe.calls[1].arg = 2
    /\ "/p1" \in DOMAIN analysis.Projects
    /\ analysis.Projects["/p1"].Cost = 10
    /\ Len(ValueOf(1)) = 2
    /\ ValueOf(1)[1].Name = "/p2" /\ ValueOf(1)[1].Cost = 30
    /\ ValueOf(1)[2].Name = "/p3" /\ ValueOf(1)[2].Cost = 20

\* C22: for a fixed finished CostAnalysis, repeated calls of GetTopProjects
\* with the same limit return the same sequence of projects, also when
\* projects have equal cost.
C22_TopProjectsReproducible ==
    EngineRunning =>
        \A i, j \in CallsOf("GetTopProjects") :
            probe.calls[i].arg = probe.calls[j].arg => ValueOf(i) = ValueOf(j)

\* C23: GetCacheHitRate returns 0 when TotalInputTokens is 0, whatever the
\* cache reads, and otherwise TotalCacheRead / TotalInputTokens * 100 up to
\* the rounding of the four float64 operations; 500 of 1000 gives exactly 50
\* and 1000 of 1000 exactly 100.
C23_CacheHitRate ==
    EngineRunning =>
        \A i \in CallsOf("GetCacheHitRate") :
            LET totalInput == analysis.TotalInputTokens
                cacheRead == analysis.TotalCacheRead
                exact == cacheRead * 100 * FloatOne
                diff == ValueOf(i) * totalInput - exact
            IN /\ totalInput = 0 => ValueOf(i) = 0
               /\ totalInput > 0 =>
                     /\ diff <= exact \div 2 ^ (FloatBits - 2)
                     /\ -diff <= exact \div 2 ^ (FloatBits - 2)
               /\ (totalInput = 1000 /\ cacheRead = 500) =>
                     ValueOf(i) = 50 * FloatOne
               /\ (totalInput = 1000 /\ cacheRead = 1000) =>
                     ValueOf(i) = 100 * FloatOne

\* 500 cache reads of 1000 input tokens: the rate returned is 50
C23_Witness ==
    /\ EngineRunning
    /\ analysis.TotalInputTokens = 1000
    /\ analysis.TotalCacheRead = 500
    /\ \E i \in CallsOf("GetCacheHitRate") : ValueOf(i) = 50 * FloatOne

\* cache reads without input tokens: the rate returned is 0
C23_WitnessNoInput ==
    /\ EngineRunning
    /\ analysis.TotalInputTokens = 0
    /\ analysis.TotalCacheRead = 500
    /\ \E i \in CallsOf("GetCacheHitRate") : ValueOf(i) = 0

\* the identifiers of the stored entries of the file at hand
StoredIDs == {allEntries[k].UUID : k \in 1..Len(allEntries)} \ {""}

\* the positions in allEntries of the entries carrying identifier u
Carriers(u) == {k \in 1..Len(allEntries) : allEntries[k].UUID = u}

\* when folding starts the index holds exactly the non-empty identifiers of
\* the stored entries, each leading to the last entry that carries it
IndexComplete ==
    /\ "" \notin DOMAIN entriesByUUID
    /\ pc = "process" =>
          /\ DOMAIN entriesByUUID = StoredIDs
          /\ \A u \in StoredIDs :
                /\ entriesByUUID[u] \in Carriers(u)
                /\ \A k \in Carriers(u) : k <= entriesByUUID[u]

\* the user entry, before or after the reply at hand, that alone carries the
\* identifier the reply names as its parent
UserParentAt(j) ==
    /\ CurrentEntry.ParentUUID # ""
    /\ Carriers(CurrentEntry.ParentUUID) = {j}
    /\ allEntries[j].Type = "user"

\* folding a reply whose parent is a stored user entry records the timestamp
\* difference when it is in range and nothing otherwise, wherever the
\* parent's line stands
ParentFoundAnywhere ==
    (/\ Processing
     /\ CurrentEntry.Type = "assistant"
     /\ entryIdx' = entryIdx + 1)
    => \A j \in 1..Len(allEntries) :
          UserParentAt(j) =>
             LET diff == CurrentEntry.ParsedTimestamp - allEntries[j].ParsedTimestamp
             IN analysis'.ResponseTimes =
                   IF InRange(diff) THEN Append(analysis.ResponseTimes, diff)
                   ELSE analysis.ResponseTimes

\* C24: parent resolution does not depend on the order of the lines of a
\* file: the identifier index is complete before any entry is folded and holds
\* only non-empty identifiers, so a reply whose parentId names a qualifying
\* user entry of the same file gets the same response-time treatment whether
\* the user entry's line stands before or after the reply's line.
C24_OrderFree == []IndexComplete /\ [][ParentFoundAnywhere]_vars

\* a reply folded before its parent's line, with the sample recorded
C24_Witness ==
    /\ Folded
    /\ LastFolded.Type = "assistant"
    /\ LastFolded.ParentUUID # ""
    /\ \E j \in entryIdx..Len(allEntries) :
         /\ Carriers(LastFolded.ParentUUID) = {j}
         /\ allEntries[j].Type = "user"
         /\ InRange(LastFolded.ParsedTimestamp - allEntries[j].ParsedTimestamp)
    /\ analysis.ResponseTimes = <<1>>

\* a reply folded after its parent's line, with the sample recorded
C24_WitnessAfter ==
    /\ Folded
    /\ LastFolded.Type = "assistant"
    /\ LastFolded.ParentUUID # ""
    /\ \E j \in 1..(entryIdx - 2) :
         /\ Carriers(LastFolded.ParentUUID) = {j}
         /\ allEntries[j].Type = "user"
    /\ analysis.ResponseTimes = <<1>>

\* an entry without identifier stored and left out of the index
C24_WitnessNoID ==
    /\ pc = "process"
    /\ \E k \in 1..Len(allEntries) : allEntries[k].UUID = ""
    /\ \E k \in 1..Len(allEntries) : allEntries[k].UUID # ""

\* the instants of the entries of any kind folded so far
FoldedInstants ==
    UNION { LET q == FoldedFrom(i) IN {InstantOf(q[k]) : k \in 1..Len(q)} :
            i \in 1..Len(input) }

\* C25: after ParseAll over input with at least one qualifying entry,
\* StartDate is the earliest and EndDate the latest timestamp over all
\* qualifying entries of any kind, and in every reachable state after the
\* first fold StartDate <= EndDate.
C25_DateRange ==
    FoldedInstants # {} =>
        /\ analysis.StartDate <= analysis.EndDate
        /\ result = "analysis" =>
              /\ analysis.StartDate \in FoldedInstants
              /\ \A t \in FoldedInstants : analysis.StartDate <= t
              /\ analysis.EndDate \in FoldedInstants
              /\ \A t \in FoldedInstants : t <= analysis.EndDate

\* no call of the statistics engine changes the aggregate
AggregateKept == EngineRunning => analysis' = analysis

\* two calls of one function with one argument return equal values
SameAnswers ==
    EngineRunning =>
        \A i, j \in 1..Len(probe.calls) :
            (/\ probe.calls[i].fn = probe.calls[j].fn
             /\ probe.calls[i].arg = probe.calls[j].arg)
            => ValueOf(i) = ValueOf(j)

\* C26: the statistics functions leave the CostAnalysis unchanged: no field
\* of the aggregate differs before and after any sequence of these calls, so
\* each call returns the same values as the first.
C26_ReadOnly == [][AggregateKept]_vars /\ []SameAnswers

\* the sum of field f over all records of the map m
Total(m, f) == SumOver(m, DOMAIN m, f)

\* C27: cost and tokens are conserved across the views of the aggregate:
\* after any sequence of folded entries the sum of Cost over all sessions
\* equals the sum over all projects, over all hour buckets and over all day
\* buckets, and for input, output, cache-read and cache-write tokens the sum
\* over sessions equals the sum over projects; after ParseAll these sums
\* equal the global totals.
C27_Conserved ==
    /\ Total(analysis.Sessions, "Cost") = Total(analysis.Projects, "Cost")
    /\ Total(analysis.Sessions, "Cost") = Total(analysis.HourlyActivity, "Cost")
    /\ Total(analysis.Sessions, "Cost") = Total(analysis.DailyActivity, "Cost")
    /\ \A f \in {"InputTokens", "OutputTokens", "CacheReadTokens", "CacheWriteTokens"} :
          Total(analysis.Sessions, f) = Total(analysis.Projects, f)
    /\ result = "analysis" =>
          /\ analysis.TotalCost = Total(analysis.Sessions, "Cost")
          /\ analysis.TotalInputTokens = Total(analysis.Sessions, "InputTokens")
          /\ analysis.TotalOutputTokens = Total(analysis.Sessions, "OutputTokens")
          /\ analysis.TotalCacheRead = Total(analysis.Sessions, "CacheReadTokens")
          /\ analysis.TotalCacheWrite = Total(analysis.Sessions, "CacheWriteTokens")

\* the lines read so far from the file at hand
CurrentLines == input[Len(input)].lines

\* some qualifying line of the file at hand is a user entry carrying the
\* identifier the entry at hand names as its parent
ParentInFile ==
    /\ CurrentEntry.ParentUUID # ""
    /\ \E k \in 1..Len(CurrentLines) :
         /\ Qualifies(CurrentLines[k])
         /\ CurrentLines[k].entry.UUID = CurrentEntry.ParentUUID
         /\ CurrentLines[k].entry.Type = "user"

\* the response-time list of project p, empty while p has no record
ProjectSamples(a, p) ==
    IF p \in DOMAIN a.Projects THEN a.Projects[p].ResponseTimes ELSE <<>>

\* no response-time list changes in this step
NoSample ==
    /\ analysis'.ResponseTimes = analysis.ResponseTimes
    /\ \A p \in DOMAIN analysis'.Projects :
          ProjectSamples(analysis', p) = ProjectSamples(analysis, p)

\* a sample is recorded only for a reply whose parent is a qualifying user
\* entry of the same file
SampleNeedsParent ==
    (/\ Processing
     /\ entryIdx' = entryIdx + 1
     /\ ~NoSample)
    => CurrentEntry.Type = "assistant" /\ ParentInFile

\* a reply without such a parent records nothing and is folded all the same
OrphanStillFolded ==
    (/\ Processing
     /\ CurrentEntry.Type = "assistant"
     /\ ~ParentInFile
     /\ entryIdx' = entryIdx + 1)
    => /\ NoSample
       /\ CurrentSession \in DOMAIN analysis'.Sessions
       /\ CurrentProject \in DOMAIN analysis'.Projects
       /\ analysis'.Sessions[CurrentSession].MessageCount =
            FieldOr0(analysis.Sessions, CurrentSession, "MessageCount") + 1
       /\ analysis'.Sessions[CurrentSession].Cost =
            FieldOr0(analysis.Sessions, CurrentSession, "Cost")
            + extractCostAndTokens(CurrentEntry).cost
       /\ CurrentSession \in analysis'.Projects[CurrentProject].SessionIDs
       /\ DayKey(CurrentEntry.ParsedTimestamp)
             \in analysis'.Projects[CurrentProject].ActiveDays
       /\ analysis'.Projects[CurrentProject].Cost =
            FieldOr0(analysis.Projects, CurrentProject, "Cost")
            + extractCostAndTokens(CurrentEntry).cost

\* C28: a response-time sample is recorded for an assistant entry only if its
\* parentId is non-empty and resolves, in the index of the same file built
\* from the entries that passed decoding and the cutoff, to a user entry; a
\* parent in another file, older than the cutoff, missing, or of another kind
\* never produces a sample, and the rest of the assistant entry (session,
\* project and cost updates) is still applied.
C28_SampleOnlyWithParent == [][SampleNeedsParent]_vars /\ [][OrphanStillFolded]_vars

\* the parent's line is in the first file, the reply in the second: no
\* sample, and the reply's cost is in its session
C28_Witness ==
    /\ Folded
    /\ Len(input) = 2
    /\ LastFolded.Type = "assistant"
    /\ LastFolded.ParentUUID # ""
    /\ \E k \in 1..Len(input[1].lines) :
         /\ Qualifies(input[1].lines[k])
         /\ input[1].lines[k].entry.UUID = LastFolded.ParentUUID
         /\ input[1].lines[k].entry.Type = "user"
         /\ InRange(LastFolded.ParsedTimestamp - InstantOf(input[1].lines[k]))
    /\ analysis.ResponseTimes = <<>>
    /\ analysis.Sessions[CurrentSession].Cost > 0
    /\ analysis.Projects[CurrentProject].Cost > 0

\* the parent's line is in the same file and older than the cutoff
C28_WitnessCutoff ==
    /\ Folded
    /\ LastFolded.Type = "assistant"
    /\ LastFolded.ParentUUID # ""
    /\ \E k \in 1..Len(CurrentLines) :
         /\ PreCutoff(CurrentLines[k])
         /\ CurrentLines[k].entry.UUID = LastFolded.ParentUUID
         /\ CurrentLines[k].entry.Type = "user"
         /\ InRange(LastFolded.ParsedTimestamp - InstantOf(CurrentLines[k]))
    /\ analysis.ResponseTimes = <<>>
    /\ analysis.Sessions[CurrentSession].MessageCount = 1

\* the parent's identifier leads to an entry of another kind
C28_WitnessKind ==
    /\ Folded
    /\ LastFolded.Type = "assistant"
    /\ LastFolded.ParentUUID \in DOMAIN entriesByUUID
    /\ allEntries[entriesByUUID[LastFolded.ParentUUID]].Type = "summary"
    /\ analysis.ResponseTimes = <<>>
    /\ analysis.Sessions[CurrentSession].MessageCount = 1

\* the aggregate after the step with the date range, and for a user entry
\* the tool-use counters, put back to what they were
AllowedUndone ==
    [analysis' EXCEPT !.StartDate = analysis.StartDate,
                      !.EndDate = analysis.EndDate,
                      !.ToolUse = IF CurrentEntry.Type = "user"
                                  THEN analysis.ToolUse ELSE @]

FrameByKind ==
    (/\ Processing
     /\ CurrentEntry.Type # "assistant"
     /\ entryIdx' = entryIdx + 1)
    => AllowedUndone = analysis

\* C29: folding an entry changes only what its kind allows: a user entry
\* changes nothing but the tool-use counters and the global start/end date,
\* an entry of any kind other than user and assistant nothing but the global
\* start/end date; neither creates a session or project record nor touches
\* any cost, token, bucket, model or response-time field.
C29_FrameByKind == [][FrameByKind]_vars

\* a user entry and then a summary entry folded: a tool result counted, the
\* end date moved by the summary, no session and no project
C29_Witness ==
    /\ Folded
    /\ entryIdx = 3
    /\ allEntries[1].Type = "user"
    /\ LastFolded.Type = "summary"
    /\ analysis.ToolUse.Accepted = 1
    /\ analysis.StartDate = allEntries[1].ParsedTimestamp
    /\ analysis.EndDate = LastFolded.ParsedTimestamp
    /\ analysis.EndDate > analysis.StartDate
    /\ DOMAIN analysis.Sessions = {}
    /\ DOMAIN analysis.Projects = {}

\* a line whose entry is an assistant entry that passes the early return of
\* processAssistantEntry
Counted(line) ==
    /\ line.entry.Type = "assistant"
    /\ ~noCostData(extractCostAndTokens(line.entry))

RECURSIVE CountedUpTo(_)
\* the number of such entries folded so far from the first i files
CountedUpTo(i) ==
    IF i = 0 THEN 0
    ELSE Len(SelectSeq(FoldedFrom(i), Counted)) + CountedUpTo(i - 1)

\* the hour and day buckets count the folded replies that carry cost data
BucketCounts ==
    /\ DOMAIN analysis.HourlyActivity \subseteq 0..23
    /\ LET counted == CountedUpTo(Len(input))
       IN /\ Total(analysis.HourlyActivity, "MessageCount") = counted
          /\ Total(analysis.DailyActivity, "MessageCount") = counted
          /\ counted <= Total(analysis.Sessions, "MessageCount")
    /\ \A day \in DOMAIN analysis.DailyActivity :
          \E p \in DOMAIN analysis.Projects : day \in analysis.Projects[p].ActiveDays

\* C30: bucket message counts are consistent: in every reachable state every
\* hour-bucket key is in 0..23, the sum of MessageCount over the hour buckets
\* equals the sum over the day buckets and the number of folded assistant
\* entries that passed the zero-cost/no-model check, this number is at most
\* the sum of MessageCount over all sessions, and every day key of
\* DailyActivity is in the ActiveDays of at least one project.
C30_BucketCounts ==
    []BucketCounts

\* three replies folded, the two with cost data counted in one hour and one
\* day
C30_Witness ==
    /\ CountedUpTo(Len(input)) = 2
    /\ Total(analysis.Sessions, "MessageCount") = 3
    /\ Cardinality(DOMAIN analysis.HourlyActivity) = 1
    /\ \E h \in DOMAIN analysis.HourlyActivity :
          analysis.HourlyActivity[h].MessageCount = 2
    /\ \E day \in DOMAIN analysis.DailyActivity :
          analysis.DailyActivity[day].MessageCount = 2

====
